---------------------------- MODULE Spec2Model ----------------------------
(***************************************************************************)
(* Decision engine of Suivi_Vignoble (src/Mildiou_App/mildiou_prevention.py)*)
(*                                                                         *)
(* Numbers.  A Python float is modelled by the exact rational it stands    *)
(* for, a pair <<n, d>> in lowest terms with d > 0; round() is Python's    *)
(* round-half-to-even on that rational.  Binary representation error of    *)
(* floats is modelled where a decision hangs on it: the subtraction of the *)
(* two rounded scores in the decision of an analysis, and the tier of the  *)
(* powdery mildew score at the threshold 4.  A score whose exact value     *)
(* ends in 5 at the second decimal is rounded by Python according to its   *)
(* float; the inputs of the specifications have no such score.             *)
(*                                                                         *)
(* Dictionaries.  A weather day record is a function from the field names  *)
(* to a rational, to None (the key is present and null) or to Absent (the  *)
(* key is missing); the empty dict {} has every field Absent.              *)
(*                                                                         *)
(* Dates.  An ISO date string 'YYYY-MM-DD' is the triple <<y, m, d>>;      *)
(* comparing two such strings is comparing the triples lexicographically,  *)
(* and datetime.strptime(...).date() is the proleptic Gregorian ordinal.   *)
(* The date of a treatment is kept as the string that was typed in, a      *)
(* sequence of characters: strptime also reads '2025-3-1', which does not  *)
(* compare as a string the way it compares as a date.                      *)
(*                                                                         *)
(* Specifications.  SpecModeles calls the three score models, SpecBilan    *)
(* the water balance, SpecProtection records treatments and computes the   *)
(* protection day after day, SpecGdd runs the phenology of one analysis,   *)
(* SpecAnalyse a whole analysis of a parcel, SpecConfig the stage updates  *)
(* of the configuration, SpecMeteo the refreshes of the weather store.     *)
(* SpecSaison runs the calls of SpecGdd and SpecBilan together,            *)
(* SpecPrevision the forecast of the next stage on its own, SpecCampagnes  *)
(* several analyses in a row over the change of year.                      *)
(***************************************************************************)
EXTENDS Integers, Sequences, FiniteSets, TLC

VARIABLES
    appel,      \* the function being called, its arguments and the log it reads
    retour      \* what the call returned (or raised); Attente before the call

vars == <<appel, retour>>

-----------------------------------------------------------------------------
(* Exact rationals standing for Python floats *)

RECURSIVE Gcd(_, _)
Gcd(a, b) == IF b = 0 THEN a ELSE Gcd(b, a % b)

Abs(n) == IF n < 0 THEN -n ELSE n

\* n/d in lowest terms, d > 0
Q(n, d) ==
    LET s == IF d < 0 THEN -1 ELSE 1
        g == Gcd(Abs(n), Abs(d))
    IN  <<(s * n) \div g, (s * d) \div g>>

Z(n) == <<n, 1>>            \* the integer n
D1(n) == Q(n, 10)           \* the one-decimal number n/10

RAdd(x, y) == Q(x[1] * y[2] + y[1] * x[2], x[2] * y[2])
RSub(x, y) == Q(x[1] * y[2] - y[1] * x[2], x[2] * y[2])
RMul(x, y) == Q(x[1] * y[1], x[2] * y[2])
RDiv(x, y) == Q(x[1] * y[2], x[2] * y[1])
RLt(x, y) == x[1] * y[2] < y[1] * x[2]
RLe(x, y) == x[1] * y[2] <= y[1] * x[2]
RGe(x, y) == RLe(y, x)
RGt(x, y) == RLt(y, x)
RMax(x, y) == IF RLt(x, y) THEN y ELSE x
RMin(x, y) == IF RLt(y, x) THEN y ELSE x

\* round-half-to-even of n/d (d > 0) to an integer
RoundDiv(n, d) ==
    LET q == n \div d       \* floor
        r == n % d          \* 0 <= r < d
    IN  IF 2 * r < d THEN q
        ELSE IF 2 * r > d THEN q + 1
        ELSE IF q % 2 = 0 THEN q ELSE q + 1

\* Python round(x): the nearest integer, as an integer
Round0(x) == RoundDiv(x[1], x[2])
\* Python round(x, 1): the nearest one-decimal number
Round1(x) == Q(RoundDiv(10 * x[1], x[2]), 10)

RECURSIVE RSum(_)
RSum(s) == IF s = <<>> THEN Z(0) ELSE RAdd(Head(s), RSum(Tail(s)))

-----------------------------------------------------------------------------
(* Python dict records with missing and null values *)

None == <<0, 0>>            \* the key is present, its value is None
Absent == <<1, 0>>          \* the key is not in the dict

IsNum(v) == v[2] > 0

Champs == {"temp_moy", "temp_max", "temp_min", "precipitation", "humidite", "etp",
           "gdd_jour"}

\* the empty dict {}
DictVide == [c \in Champs |-> Absent]

\* m.get(k, defaut)
Get(m, k, defaut) == IF m[k] = Absent THEN defaut ELSE m[k]

\* bool(m): a dict is falsy only when it is empty
Truthy(m) == \E c \in Champs : m[c] # Absent

\* what a call returns before it is made, and when it raises
Attente == [fait |-> FALSE]
Leve(e) == [fait |-> TRUE, leve |-> TRUE, erreur |-> e]

\* the elements of a finite set of integers in ascending order: sorted(...)
RECURSIVE Sorted(_)
Sorted(S) ==
    IF S = {} THEN <<>>
    ELSE LET m == CHOOSE x \in S : \A y \in S : x <= y
         IN  <<m>> \o Sorted(S \ {m})

-----------------------------------------------------------------------------
(* ModeleIPI *)

IPI_TABLE ==
    10 :> (6 :> 10 @@ 9 :> 20 @@ 12 :> 30 @@ 15 :> 40 @@ 18 :> 50) @@
    13 :> (5 :> 10 @@ 7 :> 20 @@ 10 :> 30 @@ 12 :> 40 @@ 15 :> 60 @@ 18 :> 80) @@
    16 :> (4 :> 10 @@ 6 :> 20 @@ 8 :> 30 @@ 10 :> 50 @@ 12 :> 70 @@ 15 :> 90) @@
    19 :> (3 :> 10 @@ 5 :> 20 @@ 7 :> 40 @@ 9 :> 60 @@ 11 :> 80 @@ 13 :> 100) @@
    21 :> (3 :> 10 @@ 4 :> 20 @@ 6 :> 50 @@ 8 :> 80 @@ 10 :> 100) @@
    24 :> (3 :> 10 @@ 4 :> 30 @@ 6 :> 70 @@ 8 :> 100) @@
    27 :> (3 :> 20 @@ 5 :> 60 @@ 7 :> 100)

Interpolate_Inverse(x, x0, y0, x1, y1) ==
    IF x1 = x0 THEN y0
    ELSE RAdd(y1, RDiv(RMul(RSub(x, x0), RSub(y0, y1)), RSub(x1, x0)))

\* _interpolate(x, x0, y0, x1, y1)
Interpolate(x, x0, y0, x1, y1) ==
    IF x1 = x0 THEN y0
    ELSE RAdd(y0, RDiv(RMul(RSub(x, x0), RSub(y1, y0)), RSub(x1, x0)))

FindBoundingKeys_MauvaisBord(keys, value) ==
    LET n == Len(keys)
        dedans == {i \in 1..(n - 1) :
                      RLe(Z(keys[i]), value) /\ RLt(value, Z(keys[i + 1]))}
    IN  IF RLe(value, Z(keys[1])) THEN <<keys[1], keys[1]>>
        ELSE IF RGe(value, Z(keys[n])) THEN <<keys[1], keys[1]>>
        ELSE IF dedans # {}
             THEN LET i == CHOOSE j \in dedans : \A k \in dedans : j <= k
                  IN  <<keys[i], keys[i + 1]>>
             ELSE <<keys[n], keys[n]>>

\* _find_bounding_keys(keys, value): keys an ascending sequence of integers
FindBoundingKeys(keys, value) ==
    LET n == Len(keys)
        dedans == {i \in 1..(n - 1) :
                      RLe(Z(keys[i]), value) /\ RLt(value, Z(keys[i + 1]))}
    IN  IF RLe(value, Z(keys[1])) THEN <<keys[1], keys[1]>>
        ELSE IF RGe(value, Z(keys[n])) THEN <<keys[n], keys[n]>>
        ELSE IF dedans # {}
             THEN LET i == CHOOSE j \in dedans : \A k \in dedans : j <= k
                  IN  <<keys[i], keys[i + 1]>>
             ELSE <<keys[n], keys[n]>>

\* the severity interpolated along duration in the sub-table of temperature key t
IpiPourTemp(t, duree) ==
    LET durees == IPI_TABLE[t]
        keys_d == Sorted(DOMAIN durees)
        d == FindBoundingKeys(keys_d, duree)
    IN  Interpolate(duree, Z(d[1]), Z(durees[d[1]]), Z(d[2]), Z(durees[d[2]]))

TempHorsPlage_SansMax(temp) == temp = None \/ RLt(temp, Z(10))

\* the test that sends calculer_ipi to its 0 result
TempHorsPlage(temp) == temp = None \/ RLt(temp, Z(10)) \/ RGt(temp, Z(27))

\* calculer_ipi(meteo_evenement, duree_humectation_estimee): an integer
CalculerIpi(meteo_evenement, duree) ==
    LET temp == Get(meteo_evenement, "temp_moy", None)
    IN  IF TempHorsPlage(temp) THEN 0
        ELSE LET temp_keys == Sorted(DOMAIN IPI_TABLE)
                 t == FindBoundingKeys(temp_keys, temp)
                 ipi_t0 == IpiPourTemp(t[1], duree)
             IN  IF t[1] = t[2] THEN Round0(RMax(Z(0), ipi_t0))
                 ELSE LET ipi_t1 == IpiPourTemp(t[2], duree)
                          ipi_final == Interpolate(temp, Z(t[1]), ipi_t0, Z(t[2]), ipi_t1)
                      IN  Round0(RMax(Z(0), ipi_final))

\* estimer_duree_humectation(precipitation, humidite)
EstimerDureeHumectation(precipitation, humidite) ==
    IF precipitation = None \/ humidite = None THEN Z(0)
    ELSE IF RLt(precipitation, Z(2)) THEN Z(0)
    ELSE LET duree_base == IF RLt(precipitation, Z(5))
                           THEN RMul(precipitation, D1(8))
                           ELSE RMul(precipitation, D1(12))
             duree == IF RGt(humidite, Z(90)) THEN RMul(duree_base, D1(13))
                      ELSE IF RGt(humidite, Z(80)) THEN RMul(duree_base, D1(11))
                      ELSE duree_base
         IN  RMin(duree, Z(24))

-----------------------------------------------------------------------------
(* Risk tiers shared by ModeleSimple and ModeleOidium *)

NiveauScore(score_final) ==
    IF RGe(score_final, Z(7)) THEN "FORT"
    ELSE IF RGe(score_final, Z(4)) THEN "MOYEN"
    ELSE "FAIBLE"

RetourScore(score, niveau) ==
    [fait |-> TRUE, leve |-> FALSE, score |-> score, niveau |-> niveau]

\* the indices of the non-empty records of a window, ascending: 'for m in ... if m'
Pleins(meteo) == Sorted({i \in 1..Len(meteo) : Truthy(meteo[i])})

-----------------------------------------------------------------------------
(* ModeleSimple *)

PointsPluie_Strict(pluie_totale) ==
    IF RGt(pluie_totale, Z(10)) THEN 5
    ELSE IF RGt(pluie_totale, Z(5)) THEN 3
    ELSE IF RGt(pluie_totale, Z(2)) THEN 1 ELSE 0

\* the three contributions to score_base
PointsPluie(pluie_totale) ==
    IF RGe(pluie_totale, Z(10)) THEN 5
    ELSE IF RGe(pluie_totale, Z(5)) THEN 3
    ELSE IF RGe(pluie_totale, Z(2)) THEN 1 ELSE 0

PointsTemp(temp_moy) ==
    IF RLe(Z(20), temp_moy) /\ RLe(temp_moy, Z(25)) THEN 4
    ELSE IF RLe(Z(15), temp_moy) /\ RLe(temp_moy, Z(28)) THEN 2
    ELSE IF RLe(Z(10), temp_moy) /\ RLe(temp_moy, Z(30)) THEN 1 ELSE 0

PointsHumid(humid_moy) == IF RGt(humid_moy, Z(85)) THEN 1 ELSE 0

\* score_final = min(10, score_final)
PlafondScore_SansMin(score_final) == score_final
PlafondScore(score_final) == RMin(Z(10), score_final)

\* calculer_risque_infection(meteo_48h, stade_coef, sensibilite_cepage)
ModeleSimpleRisque(meteo_48h, stade_coef, sensibilite_cepage) ==
    LET pleins == Pleins(meteo_48h)
        Pluie(i) == Get(meteo_48h[i], "precipitation", Z(0))
        pluie_nulle == \E i \in 1..Len(pleins) : Pluie(pleins[i]) = None
        pluie_totale == RSum([i \in 1..Len(pleins) |-> Pluie(pleins[i])])
        humides == Sorted({i \in 1..Len(meteo_48h) :
                              /\ Truthy(meteo_48h[i])
                              /\ RGt(Get(meteo_48h[i], "precipitation", Z(0)), Z(1))})
        temp_moy_list == Sorted({i \in 1..Len(meteo_48h) :
                                    /\ Truthy(meteo_48h[i])
                                    /\ IsNum(Get(meteo_48h[i], "temp_moy", None))})
        humid_moy_list == Sorted({i \in 1..Len(meteo_48h) :
                                     /\ Truthy(meteo_48h[i])
                                     /\ IsNum(Get(meteo_48h[i], "humidite", None))})
        TempDe(s) == [i \in 1..Len(s) |-> meteo_48h[s[i]]["temp_moy"]]
        temp_moy == IF humides # <<>>
                    THEN RDiv(RSum(TempDe(humides)), Z(Len(humides)))
                    ELSE RDiv(RSum(TempDe(temp_moy_list)), Z(Len(temp_moy_list)))
        humid_moy == RDiv(RSum([i \in 1..Len(humid_moy_list) |->
                                   meteo_48h[humid_moy_list[i]]["humidite"]]),
                          Z(Len(humid_moy_list)))
        score_base == PointsPluie(pluie_totale) + PointsTemp(temp_moy)
                      + PointsHumid(humid_moy)
        score_final == PlafondScore(RMul(RMul(Z(score_base), stade_coef),
                                         RDiv(sensibilite_cepage, Z(5))))
    IN  IF meteo_48h = <<>> THEN RetourScore(Z(0), "FAIBLE")
        ELSE IF pluie_nulle THEN Leve("TypeError")       \* sum(): int + None
        ELSE IF temp_moy_list = <<>> THEN RetourScore(Z(0), "FAIBLE")
        ELSE IF humides # <<>>
                /\ \E i \in 1..Len(humides) : ~IsNum(meteo_48h[humides[i]]["temp_moy"])
             THEN LET k == CHOOSE i \in 1..Len(humides) :
                               /\ ~IsNum(meteo_48h[humides[i]]["temp_moy"])
                               /\ \A j \in 1..(i - 1) :
                                      IsNum(meteo_48h[humides[j]]["temp_moy"])
                  IN  IF meteo_48h[humides[k]]["temp_moy"] = Absent
                      THEN Leve("KeyError")              \* m['temp_moy']
                      ELSE Leve("TypeError")             \* sum(): number + None
        ELSE IF humid_moy_list = <<>> THEN RetourScore(Z(0), "FAIBLE")
        ELSE RetourScore(Round1(score_final), NiveauScore(score_final))

-----------------------------------------------------------------------------
(* ModeleOidium *)

\* the score of one day of the 7-day window
OidiumScoreJour(m) ==
    LET temp_max == Get(m, "temp_max", Z(0))
        humid == Get(m, "humidite", Z(0))
        pluie == Get(m, "precipitation", Z(0))
        base == IF temp_max # None /\ RGe(temp_max, Z(33)) THEN -2
                ELSE IF temp_max # None /\ humid # None
                        /\ RLe(Z(20), temp_max) /\ RLe(temp_max, Z(28))
                        /\ RGe(humid, Z(60)) THEN 3
                ELSE IF temp_max # None /\ humid # None
                        /\ RLe(Z(15), temp_max) /\ RLe(temp_max, Z(30))
                        /\ RGe(humid, Z(50)) THEN 1
                ELSE 0
        daily_score == IF pluie # None /\ RGe(pluie, Z(5)) THEN base - 1 ELSE base
    IN  IF daily_score < -2 THEN -2 ELSE daily_score

\* binary64: the operands of (score_total / max_score_possible) * 10 *
\* (stade_coef / 1.5) whose exact product is 4 and whose float product is
\* 3.9999999999999996, for the coefficients of COEF_STADES and windows of up
\* to 7 days
ProduitSousQuatre(rapport, stade_coef) ==
    \/ rapport = Q(1, 3) /\ stade_coef = D1(18)
    \/ rapport = Q(6, 7) /\ stade_coef = D1(7)

\* the tier of score_final, a float
NiveauOidium(rapport, stade_coef, score_final) ==
    IF ProduitSousQuatre(rapport, stade_coef) THEN "FAIBLE" ELSE NiveauScore(score_final)

\* calculer_risque_infection(meteo_7j, stade_coef)
ModeleOidiumRisque(meteo_7j, stade_coef) ==
    LET pleins == Pleins(meteo_7j)
        jours_comptes == Len(pleins)
        score_total == RSum([i \in 1..jours_comptes |->
                                Z(OidiumScoreJour(meteo_7j[pleins[i]]))])
        max_score_possible == jours_comptes * 3
        score_final_brut == RMax(Z(0), RMul(RDiv(score_total, Z(max_score_possible)),
                                            Z(10)))
        score_final == RMin(Z(10), RMax(Z(0), RMul(score_final_brut,
                                                   RDiv(stade_coef, D1(15)))))
    IN  IF meteo_7j = <<>> THEN RetourScore(Z(0), "FAIBLE")
        ELSE IF max_score_possible = 0 THEN RetourScore(Z(0), "FAIBLE")
        ELSE RetourScore(Round1(score_final),
                         NiveauOidium(RDiv(score_total, Z(max_score_possible)),
                                      stade_coef, score_final))

-----------------------------------------------------------------------------
(* Dates: the ISO string 'YYYY-MM-DD' as <<y, m, d>> *)

PasDeDate == <<0, 0, 0>>    \* date_debourrement is None (or the empty string)

\* s1 < s2 and s1 <= s2 on the date strings
DateLt(a, b) ==
    \/ a[1] < b[1]
    \/ a[1] = b[1] /\ a[2] < b[2]
    \/ a[1] = b[1] /\ a[2] = b[2] /\ a[3] < b[3]
DateLe(a, b) == a = b \/ DateLt(a, b)

\* sorted(...) of a set of date strings
RECURSIVE SortedDates(_)
SortedDates(S) ==
    IF S = {} THEN <<>>
    ELSE LET m == CHOOSE x \in S : \A y \in S : DateLe(x, y)
         IN  <<m>> \o SortedDates(S \ {m})

EstBissextile(y) == y % 4 = 0 /\ (y % 100 # 0 \/ y % 400 = 0)

JoursDansMois(y, m) ==
    IF m = 2 THEN (IF EstBissextile(y) THEN 29 ELSE 28)
    ELSE IF m \in {4, 6, 9, 11} THEN 30 ELSE 31

\* whether datetime.strptime(s, '%Y-%m-%d') accepts the string
DateValide(d) ==
    /\ d[1] \in 1..9999
    /\ d[2] \in 1..12
    /\ d[3] \in 1..JoursDansMois(d[1], d[2])

RECURSIVE JoursAvantMois(_, _)
JoursAvantMois(y, m) ==
    IF m = 1 THEN 0 ELSE JoursAvantMois(y, m - 1) + JoursDansMois(y, m - 1)

\* date.toordinal(): days since 0001-01-01, that day being 1
Ordinal(d) ==
    LET y == d[1] - 1
    IN  y * 365 + (y \div 4) - (y \div 100) + (y \div 400)
        + JoursAvantMois(d[1], d[2]) + d[3]

\* f"{annee}-03-01"
PremierMars(annee) == <<annee, 3, 1>>

\* the start of the season: the biofix when it is set, of the current year and
\* not after today (BiofixRetenu), else March 1st; both functions take it the
\* same way
BiofixRetenu(date_biofix, aujourdhui) ==
    /\ date_biofix # PasDeDate
    /\ date_biofix[1] = aujourdhui[1]
    /\ Ordinal(date_biofix) <= Ordinal(aujourdhui)

DateDebutSaison_SansAnnee(date_biofix, aujourdhui) ==
    IF date_biofix # PasDeDate /\ Ordinal(date_biofix) <= Ordinal(aujourdhui)
    THEN date_biofix
    ELSE PremierMars(aujourdhui[1])

DateDebutSaison(date_biofix, aujourdhui) ==
    IF BiofixRetenu(date_biofix, aujourdhui) THEN date_biofix
    ELSE PremierMars(aujourdhui[1])

-----------------------------------------------------------------------------
(* ModeleBilanHydrique *)

BorneRfu_SansPlafond(rfu_actuelle_mm, rfu_max_mm) == RMax(Z(0), rfu_actuelle_mm)

\* rfu_actuelle_mm = max(0, min(rfu_max_mm, rfu_actuelle_mm))
BorneRfu(rfu_actuelle_mm, rfu_max_mm) == RMax(Z(0), RMin(rfu_max_mm, rfu_actuelle_mm))

\* one day of the loop: the reserve after the record data_jour
RfuApresJour(rfu_actuelle_mm, data_jour, rfu_max_mm) ==
    LET p == Get(data_jour, "precipitation", Z(0))
        e == Get(data_jour, "etp", Z(0))
        pluie == IF p = None THEN Z(0) ELSE p
        etp == IF e = None THEN Z(0) ELSE e
    IN  BorneRfu(RSub(RAdd(rfu_actuelle_mm, pluie), etp), rfu_max_mm)

\* the dates of the history the loop takes, in the order it takes them
JoursDeSaison(meteo_historique, date_debut, aujourdhui) ==
    SelectSeq(SortedDates(DOMAIN meteo_historique),
              LAMBDA d : /\ Ordinal(d) >= Ordinal(date_debut)
                         /\ Ordinal(d) <= Ordinal(aujourdhui))

\* the reserve after each day of the season: element i is rfu_actuelle_mm at the
\* end of the i-th pass through the loop body
RfuParJour(meteo_historique, jours, rfu_max_mm) ==
    LET rfu[i \in 0..Len(jours)] ==
            IF i = 0 THEN rfu_max_mm
            ELSE RfuApresJour(rfu[i - 1], meteo_historique[jours[i]], rfu_max_mm)
    IN  [i \in 1..Len(jours) |-> rfu[i]]

PctRfu(rfu_mm, rfu_max_mm) ==
    IF RGt(rfu_max_mm, Z(0)) THEN RMul(RDiv(rfu_mm, rfu_max_mm), Z(100)) ELSE Z(0)

NiveauRfu(stade_actuel, rfu_pct) ==
    IF stade_actuel = "repos" THEN "Dormance"
    ELSE IF RLe(rfu_pct, Z(30)) THEN "STRESS FORT"
    ELSE IF RLe(rfu_pct, Z(60)) THEN "SURVEILLANCE"
    ELSE "CONFORTABLE"

\* calculer_bilan_rfu(meteo_historique, parcelle, stade_actuel, rfu_max_mm), with
\* datetime.now().date() as aujourdhui
CalculerBilanRfu(meteo_historique, parcelle, stade_actuel, rfu_max_mm, aujourdhui) ==
    LET date_biofix == parcelle.date_debourrement
        date_debut == DateDebutSaison(date_biofix, aujourdhui)
        jours == JoursDeSaison(meteo_historique, date_debut, aujourdhui)
        rfu == RfuParJour(meteo_historique, jours, rfu_max_mm)
        rfu_actuelle_mm == IF jours = <<>> THEN rfu_max_mm ELSE rfu[Len(jours)]
        rfu_pct == IF rfu_max_mm = Z(0) THEN Z(0)
                   ELSE RMul(RDiv(rfu_actuelle_mm, rfu_max_mm), Z(100))
    IN  IF date_biofix # PasDeDate /\ ~DateValide(date_biofix) THEN Leve("ValueError")
        ELSE IF \E d \in DOMAIN meteo_historique : ~DateValide(d) THEN Leve("ValueError")
        ELSE [fait |-> TRUE, leve |-> FALSE,
              rfu_pct |-> Round1(rfu_pct),
              rfu_mm |-> Round1(rfu_actuelle_mm),
              rfu_max_mm |-> rfu_max_mm,
              niveau |-> NiveauRfu(stade_actuel, rfu_pct),
              historique_pct |->
                  [d \in {jours[i] : i \in 1..Len(jours)} |->
                      LET i == CHOOSE k \in 1..Len(jours) : jours[k] = d
                      IN  Round1(PctRfu(rfu[i], rfu_max_mm))]]

-----------------------------------------------------------------------------
(* Calls of the three score models: the specification SpecModeles *)

MaxFenetre == 3             \* longest weather window given to ModeleSimple
MaxDemiHeures == 50         \* wetness durations 0, 0.5, ... hours
MaxDemiDegres == 58         \* event temperatures 8.0, 8.5, ... degrees

\* a day record with every key present; temp_min, etp and gdd_jour null
Jour(temp_moy, temp_max, precipitation, humidite) ==
    [c \in Champs |->
        CASE c = "temp_moy" -> temp_moy
          [] c = "temp_max" -> temp_max
          [] c = "precipitation" -> precipitation
          [] c = "humidite" -> humidite
          [] OTHER -> None]

JoursSimple ==
    { DictVide,
      Jour(Z(22), Z(27), Z(12), Z(90)),
      Jour(D1(175), Z(24), Z(0), Z(60)),
      Jour(Z(31), Z(35), D1(15), Z(40)),
      Jour(D1(95), Z(14), Z(3), Z(86)),
      Jour(Z(22), Z(27), Z(12), None),
      Jour(None, None, D1(5), Z(85)),
      Jour(Z(20), Z(25), None, Z(70)),
      [Jour(Absent, Z(25), Z(6), Z(95)) EXCEPT !["temp_min"] = Absent] }

JoursOidium ==
    { DictVide,
      Jour(Z(22), Z(26), Z(0), Z(70)),
      Jour(Z(30), Z(35), Z(0), Z(30)),
      Jour(Z(14), Z(18), Z(6), Z(55)),
      Jour(Z(20), None, None, None) }

JoursOidium7 ==
    { DictVide,
      Jour(Z(22), Z(26), Z(0), Z(70)),
      Jour(Z(30), Z(35), Z(8), Z(30)) }

CoefsStade == {Z(0), D1(3), Z(1), D1(18), Z(2)}
Sensibilites == {Z(0), Q(29, 6), Z(7), Z(9)}

Fenetres(jours, n) == UNION {[1..k -> jours] : k \in 0..n}

AppelsSimple ==
    [fn : {"simple"}, meteo : Fenetres(JoursSimple, MaxFenetre),
     stade_coef : CoefsStade, sensibilite : Sensibilites]

AppelsOidium ==
    [fn : {"oidium"},
     meteo : Fenetres(JoursOidium, MaxFenetre) \cup [1..7 -> JoursOidium7],
     stade_coef : CoefsStade]

TempsIpi == {Q(k, 2) : k \in 16..MaxDemiDegres} \cup {None, Absent}
DureesIpi == {Q(k, 2) : k \in 0..MaxDemiHeures}

AppelsIpi ==
    {a \in [fn : {"ipi"}, temp_moy : TempsIpi, duree : DureesIpi, duree_longue : DureesIpi] :
        RLe(a.duree, a.duree_longue)}

InitModeles ==
    /\ appel \in AppelsSimple \cup AppelsOidium \cup AppelsIpi
    /\ retour = Attente

AppelSimple ==
    /\ retour = Attente
    /\ appel.fn = "simple"
    /\ retour' = ModeleSimpleRisque(appel.meteo, appel.stade_coef, appel.sensibilite)
    /\ UNCHANGED appel

AppelOidium ==
    /\ retour = Attente
    /\ appel.fn = "oidium"
    /\ retour' = ModeleOidiumRisque(appel.meteo, appel.stade_coef)
    /\ UNCHANGED appel

\* calculer_ipi for the same event with the two wetness durations of the call
AppelIpi ==
    /\ retour = Attente
    /\ appel.fn = "ipi"
    /\ LET evenement == Jour(appel.temp_moy, None, None, None)
       IN  retour' = [fait |-> TRUE, leve |-> FALSE,
                      ipi |-> CalculerIpi(evenement, appel.duree),
                      ipi_longue |-> CalculerIpi(evenement, appel.duree_longue)]
    /\ UNCHANGED appel

NextModeles == AppelSimple \/ AppelOidium \/ AppelIpi

SpecModeles == InitModeles /\ [][NextModeles]_vars

-----------------------------------------------------------------------------
(* Claims on the score models, checked under SpecModeles *)

\* a window whose non-empty records carry a precipitation value (or no such
\* key) and, on days with more than 1 mm, a mean temperature
FenetreRenseignee(meteo) ==
    \A i \in 1..Len(meteo) :
        \/ meteo[i] = DictVide
        \/ /\ meteo[i]["precipitation"] # None
           /\ RGt(Get(meteo[i], "precipitation", Z(0)), Z(1))
                  => IsNum(meteo[i]["temp_moy"])

ScoreDansBornes(r) == ~r.leve /\ RLe(Z(0), r.score) /\ RLe(r.score, Z(10))

C6_IpiAuxNoeuds ==
    (retour.fait /\ appel.fn = "ipi") =>
        \A t \in DOMAIN IPI_TABLE :
            appel.temp_moy = Z(t) =>
                /\ \A d \in DOMAIN IPI_TABLE[t] :
                      /\ appel.duree = Z(d) => retour.ipi = IPI_TABLE[t][d]
                      /\ appel.duree_longue = Z(d) => retour.ipi_longue = IPI_TABLE[t][d]
                /\ (t = 16 /\ appel.duree = Z(8)) => retour.ipi = 30

C6_Temoin ==
    /\ retour.fait
    /\ appel.fn = "ipi"
    /\ appel.temp_moy = Z(16)
    /\ appel.duree = Z(8)
    /\ retour.ipi = 30

\* C7: at a fixed temperature in [10,27], on a table key or between two keys, a
\* longer wetness duration never gives a lower IPI.
C7_IpiCroissantEnDuree ==
    (/\ retour.fait
     /\ appel.fn = "ipi"
     /\ IsNum(appel.temp_moy)
     /\ RLe(Z(10), appel.temp_moy)
     /\ RLe(appel.temp_moy, Z(27))
     /\ RLe(appel.duree, appel.duree_longue)) => retour.ipi <= retour.ipi_longue

\* a temperature between two keys, two durations inside the tables, a strictly
\* higher IPI for the longer one
C7_Temoin ==
    /\ retour.fait
    /\ appel.fn = "ipi"
    /\ appel.temp_moy = Q(35, 2)
    /\ appel.duree = Q(13, 2)
    /\ appel.duree_longue = Q(19, 2)
    /\ retour.ipi < retour.ipi_longue

\* C8: when the mean temperature is below 10, above 27 or absent, calculer_ipi
\* returns the value 0 for every wetness duration and raises nothing.
C8_IpiHorsPlage ==
    (/\ retour.fait
     /\ appel.fn = "ipi"
     /\ \/ ~IsNum(appel.temp_moy)
        \/ RLt(appel.temp_moy, Z(10))
        \/ RGt(appel.temp_moy, Z(27)))
    => (~retour.leve /\ retour.ipi = 0 /\ retour.ipi_longue = 0)

\* 27.5 C with 12 hours of wetness: 0, where 27 C would give 100
C8_Temoin ==
    /\ retour.fait
    /\ appel.fn = "ipi"
    /\ appel.temp_moy = Q(55, 2)
    /\ appel.duree = Z(12)
    /\ retour.ipi = 0

\* the score as the claim C10 words it, from the window alone
C10_Pleins(meteo) == {i \in 1..Len(meteo) : meteo[i] # DictVide}
C10_Humides(meteo) ==
    {i \in C10_Pleins(meteo) : RGt(Get(meteo[i], "precipitation", Z(0)), Z(1))}
C10_AvecTemp(meteo) == {i \in C10_Pleins(meteo) : IsNum(meteo[i]["temp_moy"])}
C10_AvecHumidite(meteo) == {i \in C10_Pleins(meteo) : IsNum(meteo[i]["humidite"])}

C10_Moyenne(meteo, jours, champ) ==
    LET ordre == Sorted(jours)
    IN  RDiv(RSum([k \in 1..Len(ordre) |-> meteo[ordre[k]][champ]]), Z(Len(ordre)))

C10_PartPluie(meteo) ==
    LET ordre == Sorted(C10_Pleins(meteo))
        total == RSum([k \in 1..Len(ordre) |-> Get(meteo[ordre[k]], "precipitation", Z(0))])
    IN  IF RGe(total, Z(10)) THEN 5 ELSE IF RGe(total, Z(5)) THEN 3
        ELSE IF RGe(total, Z(2)) THEN 1 ELSE 0

C10_PartTemp(meteo) ==
    LET jours == IF C10_Humides(meteo) # {} THEN C10_Humides(meteo)
                 ELSE C10_AvecTemp(meteo)
        t == C10_Moyenne(meteo, jours, "temp_moy")
    IN  IF RGe(t, Z(20)) /\ RLe(t, Z(25)) THEN 4
        ELSE IF RGe(t, Z(15)) /\ RLe(t, Z(28)) THEN 2
        ELSE IF RGe(t, Z(10)) /\ RLe(t, Z(30)) THEN 1 ELSE 0

C10_PartHumidite(meteo) ==
    IF C10_AvecHumidite(meteo) = {} THEN 0
    ELSE IF RGt(C10_Moyenne(meteo, C10_AvecHumidite(meteo), "humidite"), Z(85)) THEN 1
    ELSE 0

C10_Attendu(a) ==
    LET base == C10_PartPluie(a.meteo) + C10_PartTemp(a.meteo) + C10_PartHumidite(a.meteo)
    IN  Round1(RMin(Z(10), RMul(RMul(Z(base), a.stade_coef), RDiv(a.sensibilite, Z(5)))))

\* the windows C10 is about: a defined mean temperature on some day, values the
\* sums and the wet-day mean can be taken of
C10_Fenetre ==
    /\ retour.fait
    /\ appel.fn = "simple"
    /\ C10_AvecTemp(appel.meteo) # {}
    /\ FenetreRenseignee(appel.meteo)

-----------------------------------------------------------------------------
(* Calls of the water balance: the specification SpecBilan *)

MaxJourMars == 3            \* the history holds days up to this day of March

Aujourdhui == <<2025, 3, 2>>

\* a stored day record with its rain and its evapotranspiration
JourEau(precipitation, etp) ==
    [Jour(Z(12), Z(17), precipitation, Z(70)) EXCEPT !["etp"] = etp]

JoursBilan ==
    { JourEau(Z(1000), Z(0)),
      JourEau(Z(0), Z(1000)),
      JourEau(D1(125), D1(405)),
      JourEau(Z(0), Q(999, 100)),
      [JourEau(None, None) EXCEPT !["etp"] = Absent] }

DatesHistorique == {<<2025, 2, 28>>} \cup {<<2025, 3, j>> : j \in 1..MaxJourMars}

\* every history over some of the dates
Historiques(dates, jours) == UNION {[D -> jours] : D \in SUBSET dates}

Biofix == {PasDeDate, <<2025, 3, 2>>, <<2024, 3, 2>>, <<2025, 3, 3>>}

AppelsBilan ==
    [fn : {"bilan"},
     meteo_historique : Historiques(DatesHistorique, JoursBilan),
     parcelle : [date_debourrement : Biofix],
     stade_actuel : {"repos", "floraison"},
     rfu_max_mm : {Z(0), Z(50), Z(100)},
     aujourdhui : {Aujourdhui}]

InitBilan ==
    /\ appel \in AppelsBilan
    /\ retour = Attente

AppelBilan ==
    /\ retour = Attente
    /\ appel.fn = "bilan"
    /\ retour' = CalculerBilanRfu(appel.meteo_historique, appel.parcelle,
                                  appel.stade_actuel, appel.rfu_max_mm, appel.aujourdhui)
    /\ UNCHANGED appel

NextBilan == AppelBilan

SpecBilan == InitBilan /\ [][NextBilan]_vars

\* the days the water balance of the call runs over, and the reserve after each
C2_Jours ==
    JoursDeSaison(appel.meteo_historique,
                  DateDebutSaison(appel.parcelle.date_debourrement, appel.aujourdhui),
                  appel.aujourdhui)
C2_Reserves == RfuParJour(appel.meteo_historique, C2_Jours, appel.rfu_max_mm)

C2_DansPct(x) == RLe(Z(0), x) /\ RLe(x, Z(100))

\* C2: the reserve starts at rfu_max_mm and stays in [0, rfu_max_mm] after every
\* day of the season, so rfu_pct and every historique_pct value are in [0,100]
\* whatever the rain and ETP (a last day of 1000 mm of rain gives 100, a last day
\* of 1000 mm of ETP gives 0), and rfu_pct is 0 when rfu_max_mm is 0.
C2_ReserveBornee ==
    (retour.fait /\ appel.fn = "bilan") =>
        /\ ~retour.leve
        /\ \A i \in 1..Len(C2_Jours) :
              RLe(Z(0), C2_Reserves[i]) /\ RLe(C2_Reserves[i], appel.rfu_max_mm)
        /\ C2_DansPct(retour.rfu_pct)
        /\ DOMAIN retour.historique_pct = {C2_Jours[i] : i \in 1..Len(C2_Jours)}
        /\ \A d \in DOMAIN retour.historique_pct : C2_DansPct(retour.historique_pct[d])
        /\ RLe(Z(0), retour.rfu_mm) /\ RLe(retour.rfu_mm, appel.rfu_max_mm)
        /\ C2_Jours = <<>> => retour.rfu_mm = appel.rfu_max_mm
        /\ appel.rfu_max_mm = Z(0) => retour.rfu_pct = Z(0)
        /\ (C2_Jours # <<>> /\ appel.rfu_max_mm = Z(100)) =>
              LET dernier == appel.meteo_historique[C2_Jours[Len(C2_Jours)]]
              IN  /\ dernier = JourEau(Z(1000), Z(0)) => retour.rfu_pct = Z(100)
                  /\ dernier = JourEau(Z(0), Z(1000)) => retour.rfu_pct = Z(0)

\* 1000 mm of ETP empties the reserve, then 1000 mm of rain on the last day of
\* the season fills it: 100 %, not more
C2_Temoin ==
    /\ retour.fait
    /\ appel.fn = "bilan"
    /\ appel.rfu_max_mm = Z(100)
    /\ Len(C2_Jours) >= 2
    /\ appel.meteo_historique[C2_Jours[Len(C2_Jours) - 1]] = JourEau(Z(0), Z(1000))
    /\ appel.meteo_historique[C2_Jours[Len(C2_Jours)]] = JourEau(Z(1000), Z(0))
    /\ retour.historique_pct[C2_Jours[Len(C2_Jours) - 1]] = Z(0)
    /\ retour.rfu_pct = Z(100)

-----------------------------------------------------------------------------
(* Date strings as they are typed in: the characters of the string, a digit as
   its value and '-' as -1, which sorts before every digit as it does in ASCII.
   A treatment date is such a string: ajouter_traitement stores what it is
   given. The dates of the weather history and the evaluation date are written
   by strftime('%Y-%m-%d'), hence the triples above, turned into their string
   where the code compares them with a treatment date. *)

Tiret == -1

\* date.strftime('%Y-%m-%d')
Chaine(d) ==
    <<d[1] \div 1000, (d[1] \div 100) % 10, (d[1] \div 10) % 10, d[1] % 10, Tiret,
      d[2] \div 10, d[2] % 10, Tiret, d[3] \div 10, d[3] % 10>>

\* s < t and s <= t on strings
StrLt(s, t) ==
    \/ Len(s) < Len(t) /\ \A j \in 1..Len(s) : s[j] = t[j]
    \/ \E i \in 1..Len(s) :
          /\ i <= Len(t)
          /\ s[i] < t[i]
          /\ \A j \in 1..(i - 1) : s[j] = t[j]
StrLe(s, t) == s = t \/ StrLt(s, t)

\* int() of a run of digits
RECURSIVE Nombre(_)
Nombre(s) ==
    IF s = <<>> THEN 0 ELSE Nombre(SubSeq(s, 1, Len(s) - 1)) * 10 + s[Len(s)]

\* the place of the second '-' when the string has the shape of '%Y-%m-%d': four
\* digits, '-', one or two digits, '-', one or two digits; 0 when it has not
SecondTiret(s) ==
    LET places == { k \in {7, 8} :
                      /\ Len(s) \in (k + 1)..(k + 2)
                      /\ \A i \in 1..Len(s) :
                            IF i \in {5, k} THEN s[i] = Tiret ELSE s[i] \in 0..9 }
    IN  IF places = {} THEN 0 ELSE CHOOSE k \in places : TRUE

\* datetime.strptime(s, '%Y-%m-%d') as <<y, m, d>>, read field by field
Strptime(s) ==
    LET k == SecondTiret(s)
    IN  <<Nombre(SubSeq(s, 1, 4)), Nombre(SubSeq(s, 6, k - 1)),
          Nombre(SubSeq(s, k + 1, Len(s)))>>

\* whether datetime.strptime(s, '%Y-%m-%d') raises ValueError
StrptimeLeve(s) == SecondTiret(s) = 0 \/ ~DateValide(Strptime(s))

-----------------------------------------------------------------------------
(* GestionTraitements *)

Caracteristiques(nom, persistance_jours, lessivage_seuil_mm, type, dose) ==
    [nom |-> nom, persistance_jours |-> persistance_jours,
     lessivage_seuil_mm |-> lessivage_seuil_mm, type |-> type,
     dose_reference_kg_ha |-> dose]

\* the catalog; the names are written here without their accents
FONGICIDES ==
    [bouillie_bordelaise |-> Caracteristiques("Bouillie bordelaise", 10, 30, "contact", Z(2)),
     cymoxanil |-> Caracteristiques("Cymoxanil", 7, 20, "penetrant", D1(5)),
     fosetyl_al |-> Caracteristiques("Fosetyl-Al", 14, 40, "systemique", D1(25)),
     mancozebe |-> Caracteristiques("Mancozebe", 7, 25, "contact", D1(16)),
     soufre |-> Caracteristiques("Soufre", 8, 15, "contact", Z(3))]

COEF_POUSSE ==
    [repos |-> Z(0), debourrement |-> D1(5), pousse_10cm |-> Z(2),
     pre_floraison |-> D1(18), floraison |-> Z(1), nouaison |-> D1(8),
     fermeture_grappe |-> D1(5), veraison |-> D1(2), maturation |-> D1(1)]

\* produit.lower().replace(' ', '_') on the product names given below
CleProduit(produit) ==
    CASE produit = "Soufre" -> "soufre"
      [] produit = "Bouillie Bordelaise" -> "bouillie_bordelaise"
      [] produit = "Produit X" -> "produit_x"
      [] OTHER -> produit

Traitement_DoseReference(parcelle, date, produit, dose_kg_ha) ==
    LET produit_key == CleProduit(produit)
        caracteristiques ==
            IF produit_key \notin DOMAIN FONGICIDES
            THEN Caracteristiques(produit, 7, 25, "contact", Z(1))
            ELSE FONGICIDES[produit_key]
    IN  [parcelle |-> parcelle, date |-> date, produit |-> produit_key,
         dose_kg_ha |-> caracteristiques.dose_reference_kg_ha,
         caracteristiques |-> caracteristiques]

\* the record ajouter_traitement appends
Traitement(parcelle, date, produit, dose_kg_ha) ==
    LET produit_key == CleProduit(produit)
        caracteristiques ==
            IF produit_key \notin DOMAIN FONGICIDES
            THEN Caracteristiques(produit, 7, 25, "contact", Z(1))
            ELSE FONGICIDES[produit_key]
    IN  [parcelle |-> parcelle, date |-> date, produit |-> produit_key,
         dose_kg_ha |-> IF dose_kg_ha = None
                        THEN caracteristiques.dose_reference_kg_ha ELSE dose_kg_ha,
         caracteristiques |-> caracteristiques]

\* the empty dict returned in place of a treatment
TraitementVide ==
    [parcelle |-> Absent, date |-> Absent, produit |-> Absent, dose_kg_ha |-> Absent,
     caracteristiques |-> Absent]

\* max(traitements_parcelle, key=lambda x: x['date']): the greatest date string,
\* the first of the records that carry it
DernierTraitement(traitements_parcelle) ==
    LET i == CHOOSE k \in 1..Len(traitements_parcelle) :
                 /\ \A j \in 1..Len(traitements_parcelle) :
                       StrLe(traitements_parcelle[j].date, traitements_parcelle[k].date)
                 /\ \A j \in 1..(k - 1) :
                       traitements_parcelle[j].date # traitements_parcelle[k].date
    IN  traitements_parcelle[i]

\* the dates of the weather history whose rain is summed: the strings between
\* the treatment date and the evaluation date
DatesDePluie(meteo_periode, date_traitement, date_actuelle) ==
    { d \in DOMAIN meteo_periode :
        /\ StrLe(date_traitement, Chaine(d))
        /\ StrLe(Chaine(d), Chaine(date_actuelle)) }

\* sum(... .get('precipitation', 0) ...) over these dates
PluieDepuisTraitement(meteo_periode, dates) ==
    LET ordre == SortedDates(dates)
    IN  RSum([i \in 1..Len(ordre) |-> Get(meteo_periode[ordre[i]], "precipitation", Z(0))])

ProtectionTemps_DivisionEntiere(jours_ecoules, persistance) ==
    RMax(Z(0), RSub(Z(10), RMul(Z(jours_ecoules \div persistance), Z(10))))

\* max(0, 10 - (jours_ecoules / persistance * 10))
ProtectionTemps(jours_ecoules, persistance) ==
    RMax(Z(0), RSub(Z(10), RMul(RDiv(Z(jours_ecoules), Z(persistance)), Z(10))))

\* max(0, 10 - (jours_ecoules * coef_pousse)), the coefficient 1.0 for a stage
\* the table does not know
ProtectionPousse(jours_ecoules, stade_actuel) ==
    LET coef_pousse == IF stade_actuel \in DOMAIN COEF_POUSSE
                       THEN COEF_POUSSE[stade_actuel] ELSE Z(1)
    IN  RMax(Z(0), RSub(Z(10), RMul(Z(jours_ecoules), coef_pousse)))

Dilution_TousTypes(type_produit, protection_pousse, protection_temps) ==
    RLt(protection_pousse, protection_temps)

\* whether growth dilution is what limits the protection
Dilution(type_produit, protection_pousse, protection_temps) ==
    /\ type_produit \in {"contact", "penetrant"}
    /\ RLt(protection_pousse, protection_temps)

Facteur(nom) == [nom |-> nom, mm |-> None]

\* f"Lessivage ({pluie_depuis_traitement:.1f}mm)"
FacteurLessivage(pluie_depuis_traitement) ==
    [nom |-> "Lessivage", mm |-> Round1(pluie_depuis_traitement)]

RetourProtection(protection, traitement, facteur_limitant) ==
    [fait |-> TRUE, leve |-> FALSE, protection |-> protection,
     traitement |-> traitement, facteur_limitant |-> facteur_limitant]

\* pluie_depuis_traitement > seuil_lessivage
Lessive(pluie_depuis_traitement, seuil_lessivage) ==
    RGt(pluie_depuis_traitement, Z(seuil_lessivage))

\* calculer_protection_actuelle(parcelle, date_actuelle, meteo_periode,
\* stade_actuel) on the log historique['traitements']
CalculerProtectionActuelle(traitements, parcelle, date_actuelle, meteo_periode, stade_actuel) ==
    LET traitements_parcelle == SelectSeq(traitements, LAMBDA t : t.parcelle = parcelle)
        dernier_traitement == DernierTraitement(traitements_parcelle)
        jours_ecoules == Ordinal(date_actuelle) - Ordinal(Strptime(dernier_traitement.date))
        carac == dernier_traitement.caracteristiques
        protection_temps == ProtectionTemps(jours_ecoules, carac.persistance_jours)
        protection_pousse == ProtectionPousse(jours_ecoules, stade_actuel)
        dilution == Dilution(carac.type, protection_pousse, protection_temps)
        dates == DatesDePluie(meteo_periode, dernier_traitement.date, date_actuelle)
        pluie_depuis_traitement == PluieDepuisTraitement(meteo_periode, dates)
    IN  IF traitements_parcelle = <<>>
        THEN RetourProtection(Z(0), TraitementVide, Facteur("Aucun traitement"))
        ELSE IF StrptimeLeve(dernier_traitement.date) \/ ~DateValide(date_actuelle)
        THEN Leve("ValueError")
        ELSE IF jours_ecoules < 0
        THEN RetourProtection(Z(10), dernier_traitement, Facteur("Traitement futur"))
        ELSE IF \E d \in dates : Get(meteo_periode[d], "precipitation", Z(0)) = None
        THEN Leve("TypeError")
        ELSE IF Lessive(pluie_depuis_traitement, carac.lessivage_seuil_mm)
        THEN RetourProtection(Z(0), dernier_traitement,
                              FacteurLessivage(pluie_depuis_traitement))
        ELSE IF dilution
        THEN RetourProtection(Round1(protection_pousse), dernier_traitement,
                              Facteur("Pousse (dilution)"))
        ELSE RetourProtection(Round1(protection_temps), dernier_traitement,
                              Facteur("Persistance"))

-----------------------------------------------------------------------------
(* The treatment log and the protection read from it: the specification
   SpecProtection. Treatments are recorded one by one, the protection of the
   parcel P1 is computed on an evaluation date, and computed again on the days
   that follow as the analysis is run day after day. *)

MaxTraitements == 2         \* longest treatment log
MaxJourActuel == 14         \* last evaluation date, a day of March 2025

\* '2025-3-1', as typed without the zeros
DateCourte == <<2, 0, 2, 5, Tiret, 3, Tiret, 1>>

\* what is given to ajouter_traitement: parcelle, date, produit, dose_kg_ha
Saisies ==
    { <<"P1", Chaine(<<2025, 2, 27>>), "Bouillie Bordelaise", None>>,
      <<"P1", Chaine(<<2025, 2, 27>>), "cymoxanil", D1(4)>>,
      <<"P1", Chaine(<<2025, 2, 27>>), "fosetyl_al", None>>,
      <<"P1", Chaine(<<2025, 2, 27>>), "Soufre", None>>,
      <<"P1", DateCourte, "mancozebe", None>>,
      <<"P1", Chaine(<<2025, 3, 20>>), "Produit X", None>>,
      <<"P2", Chaine(<<2025, 3, 5>>), "cymoxanil", None>>,
      <<"P1", Chaine(<<2025, 2, 30>>), "soufre", None>> }

JourPluie(precipitation) == Jour(Z(15), Z(20), precipitation, Z(70))

\* the weather histories: none; rain that adds up to 15, 30 and 40 mm after
\* February 27th; 35 mm on February 27th, 25.5 mm on March 2nd; a null and a
\* missing rain value
MeteosProtection ==
    { [d \in {} |-> DictVide],
      (<<2025, 2, 26>> :> JourPluie(Z(50))) @@ (<<2025, 2, 28>> :> JourPluie(Z(15)))
          @@ (<<2025, 3, 3>> :> JourPluie(Z(15))) @@ (<<2025, 3, 6>> :> JourPluie(Z(10))),
      (<<2025, 2, 27>> :> JourPluie(Z(35))) @@ (<<2025, 3, 2>> :> JourPluie(D1(255))),
      (<<2025, 3, 1>> :> JourPluie(None)) @@ (<<2025, 3, 4>> :> JourPluie(Z(10)))
          @@ (<<2025, 3, 6>> :> JourPluie(Absent)) }

StadesProtection == {"repos", "pousse_10cm", "maturation", "inconnu"}

DatesActuelles ==
    {<<2025, 2, j>> : j \in 26..28} \cup {<<2025, 3, j>> : j \in 1..MaxJourActuel}

\* date + timedelta(days=1)
Lendemain(d) ==
    IF d[3] < JoursDansMois(d[1], d[2]) THEN <<d[1], d[2], d[3] + 1>>
    ELSE IF d[2] < 12 THEN <<d[1], d[2] + 1, 1>>
    ELSE <<d[1] + 1, 1, 1>>

InitProtection ==
    /\ appel \in [fn : {"protection"}, traitements : {<<>>}, parcelle : {"P1"},
                  date_actuelle : DatesActuelles, meteo_periode : MeteosProtection,
                  stade_actuel : StadesProtection]
    /\ retour = Attente

\* ajouter_traitement(parcelle, date, produit, dose_kg_ha)
AjouterTraitement ==
    /\ appel.fn = "protection"
    /\ Len(appel.traitements) < MaxTraitements
    /\ \E saisie \in Saisies :
          appel' = [appel EXCEPT !.traitements =
                       Append(@, Traitement(saisie[1], saisie[2], saisie[3], saisie[4]))]
    /\ retour' = Attente

\* calculer_protection_actuelle on the evaluation date
AppelProtection ==
    /\ appel.fn = "protection"
    /\ retour = Attente
    /\ retour' = CalculerProtectionActuelle(appel.traitements, appel.parcelle,
                                            appel.date_actuelle, appel.meteo_periode,
                                            appel.stade_actuel)
    /\ UNCHANGED appel

\* the same computation one day later, nothing else having changed
JourSuivant ==
    /\ appel.fn = "protection"
    /\ retour.fait
    /\ Lendemain(appel.date_actuelle) \in DatesActuelles
    /\ appel' = [appel EXCEPT !.date_actuelle = Lendemain(@)]
    /\ retour' = CalculerProtectionActuelle(appel.traitements, appel.parcelle,
                                            appel'.date_actuelle, appel.meteo_periode,
                                            appel.stade_actuel)

NextProtection == AjouterTraitement \/ AppelProtection \/ JourSuivant

SpecProtection == InitProtection /\ [][NextProtection]_vars

\* a protection was computed from a treatment that is not in the future
ProtectionCalculee ==
    /\ retour.fait
    /\ appel.fn = "protection"
    /\ ~retour.leve
    /\ \E i \in 1..Len(appel.traitements) : appel.traitements[i].parcelle = appel.parcelle
    /\ Ordinal(appel.date_actuelle) >= Ordinal(Strptime(retour.traitement.date))

\* the computation is made again one day later, all else fixed, and leaching
\* has not fired by then
C3_Pas ==
    /\ ProtectionCalculee
    /\ appel' = [appel EXCEPT !.date_actuelle = Lendemain(@)]
    /\ retour'.fait
    /\ ~retour'.leve
    /\ retour.facteur_limitant.nom # "Lessivage"
    /\ retour'.facteur_limitant.nom # "Lessivage"

\* the same step, leaching having fired on the first of the two days
C3_PasLessive ==
    /\ ProtectionCalculee
    /\ appel' = [appel EXCEPT !.date_actuelle = Lendemain(@)]
    /\ retour'.fait
    /\ ~retour'.leve
    /\ retour.facteur_limitant.nom = "Lessivage"

C3_ResteLessive ==
    C3_PasLessive =>
        retour'.protection = Z(0) /\ retour'.facteur_limitant.nom = "Lessivage"

\* C3 as stated: while leaching has not fired, the protection at d+1 days is
\* strictly below the protection at d days, for every d >= 0; once leaching has
\* fired the protection is 0 on every later day.
C3_Original ==
    [][ /\ C3_Pas => RLt(retour'.protection, retour.protection)
        /\ C3_ResteLessive ]_vars

\* C3: while leaching has not fired, the protection at d+1 days is strictly
\* below the protection at d days as long as the protection at d days is above
\* 0, and it is 0 at d+1 days when it is 0 at d days (the floor of max(0, ...));
\* once leaching has fired the protection is 0 on every later day.
C3_Decroissance ==
    [][ /\ C3_Pas => IF RGt(retour.protection, Z(0))
                     THEN RLt(retour'.protection, retour.protection)
                     ELSE retour'.protection = Z(0)
        /\ C3_ResteLessive ]_vars

\* eleven days after a treatment that lasts ten, on a dormant vine and without
\* rain: the protection is 0, as it was the day before
C3_Temoin ==
    /\ ProtectionCalculee
    /\ retour.traitement.caracteristiques.persistance_jours = 10
    /\ Ordinal(appel.date_actuelle) - Ordinal(Strptime(retour.traitement.date)) = 11
    /\ appel.stade_actuel = "repos"
    /\ appel.meteo_periode = [d \in {} |-> DictVide]
    /\ retour.facteur_limitant = Facteur("Persistance")
    /\ retour.protection = Z(0)

\* the weather-history dates from the day of the treatment to the evaluation
\* date, and the rain fallen on them
C4_Dates ==
    { d \in DOMAIN appel.meteo_periode :
        /\ Ordinal(Strptime(retour.traitement.date)) <= Ordinal(d)
        /\ Ordinal(d) <= Ordinal(appel.date_actuelle) }
C4_Pluie == PluieDepuisTraitement(appel.meteo_periode, C4_Dates)

\* C4 as stated: when the treatment is not dated after the evaluation date and
\* more rain than the leaching threshold of the product fell on the history
\* dates from the treatment date to the evaluation date, the result is
\* protection 0 with the factor 'Lessivage (<sum>mm)', whatever the days, the
\* product type and the stage (35 mm on a 30 mm product: 'Lessivage (35.0mm)');
\* with a sum at or below the threshold the factor is not leaching.
C4_LessivageParDates ==
    ( /\ ProtectionCalculee
      /\ \A d \in C4_Dates : IsNum(Get(appel.meteo_periode[d], "precipitation", Z(0))) ) =>
        IF RGt(C4_Pluie, Z(retour.traitement.caracteristiques.lessivage_seuil_mm))
        THEN /\ retour.protection = Z(0)
             /\ retour.facteur_limitant = [nom |-> "Lessivage", mm |-> Round1(C4_Pluie)]
        ELSE retour.facteur_limitant.nom # "Lessivage"

\* a treatment dated '2025-3-1', 25.5 mm of rain on March 2nd, a threshold of
\* 25 mm, evaluated on or after March 2nd: the factor is not leaching
C4_Temoin ==
    /\ ProtectionCalculee
    /\ retour.traitement.date = DateCourte
    /\ retour.traitement.caracteristiques.lessivage_seuil_mm = 25
    /\ C4_Dates = {<<2025, 3, 2>>}
    /\ C4_Pluie = D1(255)
    /\ retour.facteur_limitant.nom # "Lessivage"
    /\ RGt(retour.protection, Z(0))

\* a protection was computed from a treatment that is not in the future, and
\* leaching did not apply
C5_Cas == ProtectionCalculee /\ retour.facteur_limitant.nom # "Lessivage"

C5_Jours == Ordinal(appel.date_actuelle) - Ordinal(Strptime(retour.traitement.date))

\* time_decay = max(0, 10 - days/persistence*10)
C5_Temps ==
    LET persistance == retour.traitement.caracteristiques.persistance_jours
        reste == RSub(Z(10), Q(C5_Jours * 10, persistance))
    IN  IF RLt(reste, Z(0)) THEN Z(0) ELSE reste

\* growth_dilution = max(0, 10 - days*COEF_POUSSE[stage]), 1.0 for an unknown stage
C5_Pousse ==
    LET coef == IF appel.stade_actuel \in DOMAIN COEF_POUSSE
                THEN COEF_POUSSE[appel.stade_actuel] ELSE Z(1)
        reste == RSub(Z(10), RMul(Z(C5_Jours), coef))
    IN  IF RLt(reste, Z(0)) THEN Z(0) ELSE reste

C5_Dilue == retour.traitement.caracteristiques.type \in {"contact", "penetrant"}

C5_Min == IF C5_Dilue /\ RLt(C5_Pousse, C5_Temps) THEN C5_Pousse ELSE C5_Temps

C5_FacteurEtBornes ==
    /\ retour.facteur_limitant =
          Facteur(IF C5_Dilue /\ RLt(C5_Pousse, C5_Temps)
                  THEN "Pousse (dilution)" ELSE "Persistance")
    /\ RLe(Z(0), retour.protection) /\ RLe(retour.protection, Z(10))
    /\ ( /\ retour.traitement.caracteristiques.type = "contact"
         /\ retour.traitement.caracteristiques.persistance_jours = 10
         /\ C5_Jours = 5
         /\ appel.stade_actuel = "pousse_10cm" ) =>
            /\ C5_Temps = Z(5)
            /\ C5_Pousse = Z(0)
            /\ retour.protection = Z(0)
            /\ retour.facteur_limitant.nom = "Pousse (dilution)"

\* C5 as stated: without leaching and with a treatment that is not in the
\* future, the protection returned is min(time_decay, growth_dilution) for a
\* contact or penetrant product and time_decay for a systemic one; the factor
\* is 'Pousse (dilution)' exactly when growth_dilution < time_decay, else
\* 'Persistance'; the result is in [0,10].
C5_Original == C5_Cas => (retour.protection = C5_Min /\ C5_FacteurEtBornes)

\* C5: the same, the protection returned being that minimum rounded to one
\* decimal (8.6 for 10 - 10/7 = 8.571...).
C5_ProtectionMin == C5_Cas => (retour.protection = Round1(C5_Min) /\ C5_FacteurEtBornes)

\* the example of the claim: a contact product that lasts 10 days, 5 days
\* before, at pousse_10cm, without rain: time 5, growth 0, result 0
C5_Temoin ==
    /\ C5_Cas
    /\ retour.traitement.caracteristiques.type = "contact"
    /\ retour.traitement.caracteristiques.persistance_jours = 10
    /\ C5_Jours = 5
    /\ appel.stade_actuel = "pousse_10cm"
    /\ retour.protection = Z(0)
    /\ retour.facteur_limitant = Facteur("Pousse (dilution)")

\* C14: the treatment log is append-only. A call of ajouter_traitement makes
\* the log one record longer, the new record last and the earlier records as
\* they were; the dose of the new record is the dose given, or the reference
\* dose of its characteristics when none is given; its characteristics are
\* those of the catalog entry of its product; every other step leaves the log
\* as it is.
C14_Ajoute(avant, apres) ==
    /\ Len(apres) = Len(avant) + 1
    /\ SubSeq(apres, 1, Len(avant)) = avant
    /\ \E saisie \in Saisies :
          LET t == apres[Len(apres)]
          IN  /\ t.parcelle = saisie[1]
              /\ t.date = saisie[2]
              /\ t.produit = CleProduit(saisie[3])
              /\ t.dose_kg_ha = IF saisie[4] # None THEN saisie[4]
                                ELSE t.caracteristiques.dose_reference_kg_ha
              /\ t.produit \in DOMAIN FONGICIDES =>
                    t.caracteristiques = FONGICIDES[t.produit]

-----------------------------------------------------------------------------
(* SystemeDecision: growing degree days and the forecast of the next stage *)

GDD_STADE_MAP_SeuilDecale ==
    (200 :> "debourrement") @@ (300 :> "pousse_10cm") @@ (500 :> "pre_floraison")
    @@ (600 :> "floraison") @@ (750 :> "nouaison") @@ (900 :> "fermeture_grappe")
    @@ (1200 :> "veraison") @@ (1500 :> "maturation") @@ (1800 :> "repos")

GDD_STADE_MAP ==
    (180 :> "debourrement") @@ (300 :> "pousse_10cm") @@ (500 :> "pre_floraison")
    @@ (600 :> "floraison") @@ (750 :> "nouaison") @@ (900 :> "fermeture_grappe")
    @@ (1200 :> "veraison") @@ (1500 :> "maturation") @@ (1800 :> "repos")

\* int(x): the fraction is dropped
Tronque(x) == IF x[1] >= 0 THEN x[1] \div x[2] ELSE -((-x[1]) \div x[2])

EnDormance_Jamais(stade_manuel) == FALSE

\* stade_manuel == 'repos'
EnDormance(stade_manuel) == stade_manuel = "repos"

\* mode_calcul; the date is the biofix of f"Biofix ({date_biofix})"
Mode(nom, date) == [nom |-> nom, date |-> date]

\* the five values _calculer_gdd returns; a stage name "None" and a threshold
\* None stand for Python's None; alerte is filled by _predire_stade_futur
RetourGdd(gdd, stade_estime, prochain_stade_gdd, prochain_stade_nom, mode_calcul) ==
    [fait |-> TRUE, leve |-> FALSE, gdd_actuel |-> gdd, stade_estime |-> stade_estime,
     prochain_stade_gdd |-> prochain_stade_gdd,
     prochain_stade_nom |-> prochain_stade_nom,
     mode_calcul |-> mode_calcul, alerte |-> Attente]

\* _calculer_gdd(parcelle, meteo_historique, date_actuelle, stade_manuel); every
\* exception raised inside ends in the 'Erreur' result
CalculerGdd(parcelle, meteo_historique, date_actuelle, stade_manuel) ==
    LET date_biofix == parcelle.date_debourrement
        date_debut_gdd == DateDebutSaison(date_biofix, date_actuelle)
        jours == JoursDeSaison(meteo_historique, date_debut_gdd, date_actuelle)
        gdd_jours == [i \in 1..Len(jours) |->
                         Get(meteo_historique[jours[i]], "gdd_jour", Z(0))]
        gdd_sum == RSum(gdd_jours)
        atteints == {g \in DOMAIN GDD_STADE_MAP : RGe(gdd_sum, Z(g))}
        a_venir == {g \in DOMAIN GDD_STADE_MAP : RLt(gdd_sum, Z(g))}
        exception ==
            \/ ~DateValide(date_actuelle)
            \/ date_biofix # PasDeDate /\ ~DateValide(date_biofix)
            \/ \E d \in DOMAIN meteo_historique : ~DateValide(d)
            \/ \E i \in 1..Len(jours) : gdd_jours[i] = None
    IN  IF EnDormance(stade_manuel)
        THEN RetourGdd(0, "repos", Z(180), "debourrement",
                       Mode("En dormance (calcul GDD inactif)", PasDeDate))
        ELSE IF exception
        THEN RetourGdd(0, "repos", None, "None", Mode("Erreur", PasDeDate))
        ELSE RetourGdd(
                Tronque(gdd_sum),
                IF atteints = {} THEN "repos"
                ELSE GDD_STADE_MAP[CHOOSE g \in atteints : \A h \in atteints : h <= g],
                IF a_venir = {} THEN None
                ELSE Z(CHOOSE g \in a_venir : \A h \in a_venir : g <= h),
                IF a_venir = {} THEN "None"
                ELSE GDD_STADE_MAP[CHOOSE g \in a_venir : \A h \in a_venir : g <= h],
                IF BiofixRetenu(date_biofix, date_actuelle)
                THEN Mode("Biofix", date_biofix)
                ELSE Mode("1er Mars (Estimation)", PasDeDate))

\* what _predire_stade_futur returns: the text, written here without its
\* accents and with the stage it names apart, and the number of days
Alerte(texte, stade, jours) ==
    [fait |-> TRUE, texte |-> texte, stade |-> stade, jours |-> jours]

PredireStadeFutur_SansLimite(meteo_historique, date_actuelle, gdd_actuel, prochain_stade_gdd, prochain_stade_nom, stade_manuel, t_base) ==
    LET gdd_necessaire == RSub(prochain_stade_gdd, Z(gdd_actuel))
        apres == SortedDates({d \in DOMAIN meteo_historique : DateLt(date_actuelle, d)})
        dates_futures == apres
        apport(d) ==
            LET t == Get(meteo_historique[d], "temp_moy", Z(0))
                temp_moy == IF t = None THEN Z(0) ELSE t
            IN  RMax(Z(0), RSub(temp_moy, t_base))
        gdd_futur_cumul[i \in 0..Len(dates_futures)] ==
            IF i = 0 THEN Z(0)
            ELSE IF Truthy(meteo_historique[dates_futures[i]])
            THEN RAdd(gdd_futur_cumul[i - 1], apport(dates_futures[i]))
            ELSE gdd_futur_cumul[i - 1]
        atteint == { i \in 1..Len(dates_futures) :
                       /\ Truthy(meteo_historique[dates_futures[i]])
                       /\ RGe(gdd_futur_cumul[i], gdd_necessaire) }
    IN  IF EnDormance(stade_manuel)
        THEN Alerte("Prevision inactive (dormance)", "None", -1)
        ELSE IF prochain_stade_gdd = None \/ prochain_stade_gdd = Z(0)
        THEN Alerte("Cycle vegetatif estime termine.", "None", -1)
        ELSE IF RLe(gdd_necessaire, Z(0))
        THEN Alerte("Stade deja atteint.", prochain_stade_nom, 0)
        ELSE IF atteint # {}
        THEN Alerte("Prevision : stade dans ~n jours.", prochain_stade_nom,
                    CHOOSE i \in atteint : \A j \in atteint : i <= j)
        ELSE Alerte("Stade non atteint dans les 7 prochains jours.",
                    prochain_stade_nom, -1)

\* _predire_stade_futur(meteo_historique, date_actuelle, gdd_actuel,
\* prochain_stade_gdd, prochain_stade_nom, stade_manuel), with t_base_gdd
PredireStadeFutur(meteo_historique, date_actuelle, gdd_actuel, prochain_stade_gdd, prochain_stade_nom, stade_manuel, t_base) ==
    LET gdd_necessaire == RSub(prochain_stade_gdd, Z(gdd_actuel))
        apres == SortedDates({d \in DOMAIN meteo_historique : DateLt(date_actuelle, d)})
        dates_futures == SubSeq(apres, 1, IF Len(apres) < 7 THEN Len(apres) ELSE 7)
        apport(d) ==
            LET t == Get(meteo_historique[d], "temp_moy", Z(0))
                temp_moy == IF t = None THEN Z(0) ELSE t
            IN  RMax(Z(0), RSub(temp_moy, t_base))
        gdd_futur_cumul[i \in 0..Len(dates_futures)] ==
            IF i = 0 THEN Z(0)
            ELSE IF Truthy(meteo_historique[dates_futures[i]])
            THEN RAdd(gdd_futur_cumul[i - 1], apport(dates_futures[i]))
            ELSE gdd_futur_cumul[i - 1]
        atteint == { i \in 1..Len(dates_futures) :
                       /\ Truthy(meteo_historique[dates_futures[i]])
                       /\ RGe(gdd_futur_cumul[i], gdd_necessaire) }
    IN  IF EnDormance(stade_manuel)
        THEN Alerte("Prevision inactive (dormance)", "None", -1)
        ELSE IF prochain_stade_gdd = None \/ prochain_stade_gdd = Z(0)
        THEN Alerte("Cycle vegetatif estime termine.", "None", -1)
        ELSE IF RLe(gdd_necessaire, Z(0))
        THEN Alerte("Stade deja atteint.", prochain_stade_nom, 0)
        ELSE IF atteint # {}
        THEN Alerte("Prevision : stade dans ~n jours.", prochain_stade_nom,
                    CHOOSE i \in atteint : \A j \in atteint : i <= j)
        ELSE Alerte("Stade non atteint dans les 7 prochains jours.",
                    prochain_stade_nom, -1)

-----------------------------------------------------------------------------
(* The phenology of one analysis: the specification SpecGdd. analyser_parcelle
   calls _calculer_gdd, then _predire_stade_futur with what it returned. *)

MaxJourGdd == 3             \* last date of the weather history, a day of March 2025

JourGdd(gdd_jour, temp_moy) ==
    [Jour(temp_moy, temp_moy, Z(0), Z(70)) EXCEPT !["gdd_jour"] = gdd_jour]

JoursGdd ==
    { JourGdd(D1(75), D1(175)),
      JourGdd(Z(180), Z(190)),
      JourGdd(Z(1000), Z(1010)),
      JourGdd(None, None) }

DatesGdd == {<<2025, 2, 28>>} \cup {<<2025, 3, j>> : j \in 1..MaxJourGdd}

BiofixGdd ==
    {PasDeDate, <<2025, 2, 28>>, <<2025, 3, 3>>, <<2024, 3, 2>>, <<2025, 2, 30>>}

T_BASE_GDD == Z(10)

AppelsGdd ==
    [fn : {"gdd"},
     meteo_historique : Historiques(DatesGdd, JoursGdd),
     parcelle : [date_debourrement : BiofixGdd],
     date_actuelle : {<<2025, 3, 2>>, <<2025, 3, 3>>},
     stade_manuel : {"repos", "floraison"}]

InitGdd ==
    /\ appel \in AppelsGdd
    /\ retour = Attente

AppelCalculerGdd ==
    /\ appel.fn = "gdd"
    /\ retour = Attente
    /\ retour' = CalculerGdd(appel.parcelle, appel.meteo_historique,
                             appel.date_actuelle, appel.stade_manuel)
    /\ UNCHANGED appel

AppelPredireStadeFutur ==
    /\ appel.fn = "gdd"
    /\ retour.fait
    /\ ~retour.alerte.fait
    /\ retour' = [retour EXCEPT !.alerte =
                     PredireStadeFutur(appel.meteo_historique, appel.date_actuelle,
                                       retour.gdd_actuel, retour.prochain_stade_gdd,
                                       retour.prochain_stade_nom, appel.stade_manuel,
                                       T_BASE_GDD)]
    /\ UNCHANGED appel

NextGdd == AppelCalculerGdd \/ AppelPredireStadeFutur

SpecGdd == InitGdd /\ [][NextGdd]_vars

\* C9: with the manual stage 'repos', _calculer_gdd returns 0 degree days, the
\* stage 'repos', the next threshold 180 of 'debourrement' and the dormancy
\* mode, whatever the weather history, the biofix and the evaluation date (an
\* invalid biofix and null degree days included), and _predire_stade_futur
\* returns the inactive forecast with -1 days.
C9_Dormance ==
    (retour.fait /\ appel.fn = "gdd" /\ appel.stade_manuel = "repos") =>
        /\ retour.gdd_actuel = 0
        /\ retour.stade_estime = "repos"
        /\ retour.prochain_stade_gdd = Z(180)
        /\ retour.prochain_stade_nom = "debourrement"
        /\ retour.mode_calcul.nom = "En dormance (calcul GDD inactif)"
        /\ retour.alerte.fait =>
              /\ retour.alerte.texte = "Prevision inactive (dormance)"
              /\ retour.alerte.jours = -1

\* a dormant parcel with 2000 degree days in its history, a biofix that is not
\* a date and a null value: both functions have answered
C9_Temoin ==
    /\ retour.fait
    /\ appel.fn = "gdd"
    /\ appel.stade_manuel = "repos"
    /\ appel.parcelle.date_debourrement = <<2025, 2, 30>>
    /\ appel.date_actuelle = <<2025, 3, 3>>
    /\ DOMAIN appel.meteo_historique = DatesGdd
    /\ appel.meteo_historique[<<2025, 3, 1>>] = JourGdd(Z(1000), Z(1010))
    /\ appel.meteo_historique[<<2025, 3, 2>>] = JourGdd(Z(1000), Z(1010))
    /\ appel.meteo_historique[<<2025, 3, 3>>] = JourGdd(None, None)
    /\ retour.gdd_actuel = 0
    /\ retour.alerte.fait
    /\ retour.alerte.jours = -1

-----------------------------------------------------------------------------
(* Binary floating point where it decides: the decision of an analysis
   subtracts two scores that round(x, 1) produced, and compares the difference
   with an integer threshold. round(x, 1) returns the double nearest to k/10;
   that double is k/10 + Ecart(k) / (10 * 2^56), and the subtraction rounds the
   exact difference of the two doubles to the nearest double, ties to even. *)

RECURSIVE Pow2(_)
Pow2(n) == IF n = 0 THEN 1 ELSE 2 * Pow2(n - 1)

\* the number of tenths of a one-decimal number
Dixiemes(x) == (10 * x[1]) \div x[2]

\* the binary exponent of k/10: 2^e <= k/10 < 2^(e+1), for 1 <= k < 160
Exposant(k) == CHOOSE e \in -4..3 : 10 * Pow2(e + 4) <= 16 * k /\ 16 * k < 10 * Pow2(e + 5)

\* the double nearest to k/10 has the 53-bit mantissa round(k * 2^s / 10) with
\* s = 52 - e, so it misses k/10 by -r or 10 - r units of 1/(10 * 2^s), r being
\* k * 2^s mod 10 (2^s mod 10 has period 4); in units of 1/(10 * 2^56)
Ecart(k) ==
    IF k = 0 THEN 0
    ELSE LET e == Exposant(k)
             s == 52 - e
             r == (k * (Pow2((s % 4) + 4) % 10)) % 10
         IN  (IF r < 5 THEN -r ELSE 10 - r) * Pow2(e + 4)

\* x - y >= seuil in floats, x and y one-decimal numbers from 0 to 10, seuil an
\* integer: when the tenths differ from the threshold the doubles are far
\* apart; when they meet it the difference of the doubles rounds up to seuil
\* only if it is within half a unit in the last place below it
DifferenceAtteint(x, y, seuil) ==
    LET kx == Dixiemes(x)
        ky == Dixiemes(y)
        demi_ulp == 10 * Pow2(Exposant(10 * seuil - 1) + 3)
    IN  IF kx - ky # 10 * seuil THEN kx - ky > 10 * seuil
        ELSE Ecart(kx) - Ecart(ky) >= -demi_ulp

-----------------------------------------------------------------------------
(* ConfigVignoble: the tables of the configuration *)

\* the names are written here without their accents
SENSIBILITES_CEPAGES ==
    ("Chardonnay" :> 7) @@ ("Cabernet Sauvignon" :> 6) @@ ("Merlot" :> 7)
    @@ ("Grenache" :> 5) @@ ("Syrah" :> 6) @@ ("Pinot Noir" :> 8)
    @@ ("Sauvignon" :> 7) @@ ("Carignan" :> 4) @@ ("Mourvedre" :> 5)
    @@ ("Cinsault" :> 5) @@ ("Ugni Blanc" :> 6) @@ ("Viognier" :> 6)
    @@ ("Caladoc" :> 6)

COEF_STADES_ReposActif ==
    [repos |-> D1(8), debourrement |-> D1(8), pousse_10cm |-> D1(15),
     pre_floraison |-> D1(18), floraison |-> Z(2), nouaison |-> D1(18),
     fermeture_grappe |-> D1(15), veraison |-> D1(7), maturation |-> D1(3)]

COEF_STADES ==
    [repos |-> Z(0), debourrement |-> D1(8), pousse_10cm |-> D1(15),
     pre_floraison |-> D1(18), floraison |-> Z(2), nouaison |-> D1(18),
     fermeture_grappe |-> D1(15), veraison |-> D1(7), maturation |-> D1(3)]

\* a parcel of the configuration; date_debourrement is the biofix, PasDeDate
\* when it is None
Parcelle(nom, cepages, stade_actuel, date_debourrement) ==
    [nom |-> nom, cepages |-> cepages, stade_actuel |-> stade_actuel,
     date_debourrement |-> date_debourrement]


-----------------------------------------------------------------------------
(* SystemeDecision.analyser_parcelle *)

SEUIL_ALERTE_PLUIE == 10
SEUIL_PROTECTION_FAIBLE == 5
SEUIL_DECISION_HAUTE == 5
SEUIL_DECISION_MOYENNE == 2

\* date - timedelta(days=1)
Veille(d) ==
    IF d[3] > 1 THEN <<d[1], d[2], d[3] - 1>>
    ELSE IF d[2] > 1 THEN <<d[1], d[2] - 1, JoursDansMois(d[1], d[2] - 1)>>
    ELSE <<d[1] - 1, 12, 31>>

\* datetime.now() - timedelta(days=i)
RECURSIVE JoursAvant(_, _)
JoursAvant(d, i) == IF i = 0 THEN d ELSE JoursAvant(Veille(d), i - 1)

\* meteo_historique.get(d, {})
MeteoDuJour(meteo_historique, d) ==
    IF d \in DOMAIN meteo_historique THEN meteo_historique[d] ELSE DictVide

\* [meteo_historique.get(d, {}) for d in dates]: the n days that end today
FenetreMeteo(meteo_historique, aujourdhui, n) ==
    [i \in 1..n |-> MeteoDuJour(meteo_historique, JoursAvant(aujourdhui, n - i))]

\* next((p for p in parcelles if p['nom'] == nom_parcelle), None): its index, 0
\* for None
IndiceParcelle(parcelles, nom_parcelle) ==
    LET trouvees == {i \in 1..Len(parcelles) : parcelles[i].nom = nom_parcelle}
    IN  IF trouvees = {} THEN 0 ELSE CHOOSE i \in trouvees : \A j \in trouvees : i <= j

\* SENSIBILITES_CEPAGES.get(c, 5)
SensibiliteCepage(c) ==
    IF c \in DOMAIN SENSIBILITES_CEPAGES THEN SENSIBILITES_CEPAGES[c] ELSE 5

\* sum(sensibilites) / len(sensibilites)
SensibiliteMoy(cepages) ==
    RDiv(RSum([i \in 1..Len(cepages) |-> Z(SensibiliteCepage(cepages[i]))]),
         Z(Len(cepages)))

\* COEF_STADES.get(stade_manuel, 1.0)
StadeCoef(stade_manuel) ==
    IF stade_manuel \in DOMAIN COEF_STADES THEN COEF_STADES[stade_manuel] ELSE Z(1)

\* the key of max(meteo_48h, key=...): the rain of a record, -1 for {}
ClePluie(x) == IF Truthy(x) THEN Get(x, "precipitation", Z(0)) ELSE Z(-1)

\* max(meteo_48h, key=...): the first record with the greatest key
JourMaxPluie(meteo_48h) ==
    LET i == CHOOSE k \in 1..Len(meteo_48h) :
                 /\ \A j \in 1..Len(meteo_48h) :
                       RLe(ClePluie(meteo_48h[j]), ClePluie(meteo_48h[k]))
                 /\ \A j \in 1..(k - 1) :
                       RLt(ClePluie(meteo_48h[j]), ClePluie(meteo_48h[k]))
    IN  meteo_48h[i]

\* utiliser_ipi and meteo_48h and stade_coef > 0.0
IpiApplicable(utiliser_ipi, meteo_48h, stade_coef) ==
    utiliser_ipi /\ meteo_48h # <<>> /\ RGt(stade_coef, Z(0))

\* jour_max_pluie and jour_max_pluie.get('precipitation', 0) >= 2
PluieSuffisante(jour_max_pluie) ==
    Truthy(jour_max_pluie) /\ RGe(Get(jour_max_pluie, "precipitation", Z(0)), Z(2))

\* estimer_duree_humectation(jour.get('precipitation'), jour.get('humidite'))
DureeHumect(jour_max_pluie) ==
    EstimerDureeHumectation(Get(jour_max_pluie, "precipitation", None),
                            Get(jour_max_pluie, "humidite", None))

\* whether the IPI block reaches its call of calculer_ipi
IpiInvoque(utiliser_ipi, meteo_48h, stade_coef) ==
    /\ IpiApplicable(utiliser_ipi, meteo_48h, stade_coef)
    /\ PluieSuffisante(JourMaxPluie(meteo_48h))
    /\ RGt(DureeHumect(JourMaxPluie(meteo_48h)), Z(0))

IpiNiveau_SansMoyen(ipi_value) == IF ipi_value >= 60 THEN "FORT" ELSE "FAIBLE"

\* the tier of a computed index
IpiNiveau(ipi_value) ==
    IF ipi_value >= 60 THEN "FORT" ELSE IF ipi_value >= 30 THEN "MOYEN" ELSE "FAIBLE"

RetourIpi(ipi_value, ipi_risque) ==
    [fait |-> TRUE, leve |-> FALSE, ipi |-> ipi_value, ipi_niveau |-> ipi_risque]

\* the IPI block: ipi_value and ipi_risque; the tiers are written without
\* their accents
BlocIpi(utiliser_ipi, meteo_48h, stade_coef) ==
    IF IpiApplicable(utiliser_ipi, meteo_48h, stade_coef)
    THEN IF Len(meteo_48h) > 1 /\ \E i \in 1..Len(meteo_48h) : ClePluie(meteo_48h[i]) = None
         THEN Leve("TypeError")                  \* max(): number > None
         ELSE IF ~PluieSuffisante(JourMaxPluie(meteo_48h))
         THEN RetourIpi(Z(0), "FAIBLE (Pluie Insuff.)")
         ELSE IF ~RGt(DureeHumect(JourMaxPluie(meteo_48h)), Z(0))
         THEN RetourIpi(Z(0), "FAIBLE (Humect. Nulle)")
         ELSE LET ipi_value == CalculerIpi(JourMaxPluie(meteo_48h),
                                           DureeHumect(JourMaxPluie(meteo_48h)))
              IN  RetourIpi(Z(ipi_value), IpiNiveau(ipi_value))
    ELSE IF utiliser_ipi THEN RetourIpi(Z(0), "NUL (Repos vegetatif)")
    ELSE RetourIpi(None, "N/A")

\* score_decision >= seuil, score_decision = risque_simple - protection
DecisionAtteint(risque_simple, protection, seuil) ==
    DifferenceAtteint(risque_simple, protection, seuil)

\* decision and urgence; the texts are written without their accents
Decision(risque_simple, protection) ==
    IF DecisionAtteint(risque_simple, protection, SEUIL_DECISION_HAUTE)
    THEN [action |-> "TRAITER MAINTENANT (Mildiou)", urgence |-> "haute"]
    ELSE IF DecisionAtteint(risque_simple, protection, SEUIL_DECISION_MOYENNE)
    THEN [action |-> "Surveiller - Traiter si pluie annoncee (Mildiou)",
          urgence |-> "moyenne"]
    ELSE [action |-> "Pas de traitement Mildiou necessaire", urgence |-> "faible"]

\* alerte_oidium, without its pictogram
AlerteOidium(niveau_oidium) ==
    IF niveau_oidium = "FORT" THEN "RISQUE OIDIUM FORT - Verifier protection"
    ELSE IF niveau_oidium = "MOYEN" THEN "Risque Oidium MOYEN - Surveillance"
    ELSE ""

\* sorted([d for d in meteo_historique.keys() if d > date_actuelle])[:3]
DatesFutures(meteo_historique, date_actuelle) ==
    LET apres == SortedDates({d \in DOMAIN meteo_historique : DateLt(date_actuelle, d)})
    IN  SubSeq(apres, 1, IF Len(apres) < 3 THEN Len(apres) ELSE 3)

\* sum(meteo_historique.get(d, {}).get('precipitation', 0) for d in dates_futures)
PluiePrevue(meteo_historique, dates_futures) ==
    RSum([i \in 1..Len(dates_futures) |->
             Get(meteo_historique[dates_futures[i]], "precipitation", Z(0))])

\* alerte_preventive: '' or the text with the forecast rain, f"{pluie_prevue:.1f}"
AlertePreventive(pluie_prevue, protection) ==
    IF RGt(pluie_prevue, Z(SEUIL_ALERTE_PLUIE)) /\ RLt(protection, Z(SEUIL_PROTECTION_FAIBLE))
    THEN [texte |-> "Pluie prevue - Traitement preventif Mildiou recommande",
          mm |-> Round1(pluie_prevue)]
    ELSE [texte |-> "", mm |-> None]

\* the two results that carry the key 'erreur'
ErreurAnalyse(message) == [fait |-> TRUE, leve |-> FALSE, erreur |-> message]


\* the record ajouter_analyse keeps of an analysis
AnalyseSimplifiee(analyse) ==
    [date |-> analyse.date_analyse,
     parcelle |-> analyse.parcelle,
     stade |-> analyse.stade,
     gdd_cumul |-> analyse.gdd.cumul,
     gdd_stade_estime |-> analyse.gdd.stade_estime,
     bilan_hydrique_pct |-> analyse.bilan_hydrique.rfu_pct,
     risque_mildiou |-> [score |-> analyse.risque_infection.score,
                         niveau |-> analyse.risque_infection.niveau,
                         ipi |-> analyse.risque_infection.ipi],
     risque_oidium |-> analyse.risque_oidium,
     protection |->
         [score |-> analyse.protection_actuelle.score,
          dernier_traitement |->
              IF analyse.protection_actuelle.facteur_limitant.nom = "Aucun traitement"
              THEN None ELSE analyse.protection_actuelle.dernier_traitement.date,
          facteur_limitant |-> analyse.protection_actuelle.facteur_limitant],
     decision |-> [score |-> analyse.decision.score,
                   action |-> analyse.decision.action,
                   urgence |-> analyse.decision.urgence,
                   alerte_oidium |-> analyse.decision.alerte_oidium,
                   alerte_stade |-> analyse.gdd.alerte_stade,
                   alerte_hydrique |-> analyse.bilan_hydrique.niveau],
     meteo |-> [c \in {"temp_moy", "precipitation", "humidite"} |->
                   Get(analyse.meteo_actuelle, c, None)],
     previsions |-> [pluie_3j |-> analyse.previsions_3j.pluie_totale]]

\* get_campagne(annee): the index of the first campaign of the year, 0 for None
IndiceCampagne(campagnes, annee) ==
    LET trouvees == {i \in 1..Len(campagnes) : campagnes[i].annee = annee}
    IN  IF trouvees = {} THEN 0 ELSE CHOOSE i \in trouvees : \A j \in trouvees : i <= j

AnalysesApresAjout_ToujoursAjoute(analyses, analyse_simplifiee) ==
    Append(analyses, analyse_simplifiee)

\* campagne['analyses'] after ajouter_analyse: the first record of the same
\* date and parcel is replaced, else the record is appended
AnalysesApresAjout(analyses, analyse_simplifiee) ==
    LET existantes == {i \in 1..Len(analyses) :
                          /\ analyses[i].date = analyse_simplifiee.date
                          /\ analyses[i].parcelle = analyse_simplifiee.parcelle}
    IN  IF existantes # {}
        THEN [analyses EXCEPT ![CHOOSE i \in existantes : \A j \in existantes : i <= j] =
                 analyse_simplifiee]
        ELSE Append(analyses, analyse_simplifiee)

\* historique['campagnes'] after ajouter_analyse(analyse_complete)
AjouterAnalyse(campagnes, analyse_complete) ==
    LET annee == analyse_complete.date_analyse[1]
        avec == IF IndiceCampagne(campagnes, annee) = 0
                THEN Append(campagnes, [annee |-> annee, analyses |-> <<>>])
                ELSE campagnes
        k == IndiceCampagne(avec, annee)
    IN  [avec EXCEPT ![k].analyses =
            AnalysesApresAjout(@, AnalyseSimplifiee(analyse_complete))]

AnalyseJournal_SansParcelle(analyse) ==
    [date |-> analyse.date_analyse, parcelle |-> "",
     risque |-> analyse.risque_infection.score,
     protection |-> analyse.protection_actuelle.score,
     decision_score |-> RSub(analyse.risque_infection.score,
                             analyse.protection_actuelle.score)]

\* the record appended to historique_analyses; decision_score is the
\* difference before it is rounded
AnalyseJournal(analyse) ==
    [date |-> analyse.date_analyse, parcelle |-> analyse.parcelle,
     risque |-> analyse.risque_infection.score,
     protection |-> analyse.protection_actuelle.score,
     decision_score |-> RSub(analyse.risque_infection.score,
                             analyse.protection_actuelle.score)]

HistoriqueVide_Jamais(meteo_historique) == FALSE

\* if not self.meteo_historique
HistoriqueVide(meteo_historique) == DOMAIN meteo_historique = {}

\* the only element of a set of one element
Lier(S) == CHOOSE r \in S : TRUE

\* the end of analyser_parcelle, from the values computed on the way: the first
\* exception raised, or the analysis
ResultatAnalyse(parcelle, nom_parcelle, date_actuelle, meteo_historique, t_base_gdd, simple, ipi, oidium, gdd, bilan_hydrique, protection) ==
    LET stade_manuel == parcelle.stade_actuel
        risque_simple == simple.score
        dates_futures == DatesFutures(meteo_historique, date_actuelle)
    IN  IF simple.leve THEN simple
        ELSE IF ipi.leve THEN ipi
        ELSE IF bilan_hydrique.leve THEN bilan_hydrique
        ELSE IF protection.leve THEN protection
        ELSE IF \E i \in 1..Len(dates_futures) :
                   Get(meteo_historique[dates_futures[i]], "precipitation", Z(0)) = None
        THEN Leve("TypeError")                   \* sum(): number + None
        ELSE Lier({
             [fait |-> TRUE, leve |-> FALSE,
              parcelle |-> nom_parcelle,
              date_analyse |-> date_actuelle,
              cepages |-> parcelle.cepages,
              stade |-> stade_manuel,
              meteo_actuelle |-> MeteoDuJour(meteo_historique, date_actuelle),
              gdd |-> [cumul |-> gdd.gdd_actuel, stade_estime |-> gdd.stade_estime,
                       alerte_stade |-> alerte_stade, mode_calcul |-> gdd.mode_calcul],
              bilan_hydrique |-> bilan_hydrique,
              risque_infection |-> [score |-> risque_simple, niveau |-> simple.niveau,
                                    ipi |-> ipi.ipi, ipi_niveau |-> ipi.ipi_niveau],
              risque_oidium |-> [score |-> oidium.score, niveau |-> oidium.niveau],
              protection_actuelle |->
                  [score |-> protection.protection,
                   dernier_traitement |-> protection.traitement,
                   facteur_limitant |-> protection.facteur_limitant],
              decision |->
                  [score |-> Round1(RSub(risque_simple, protection.protection)),
                   action |-> decision.action,
                   urgence |-> decision.urgence,
                   alerte_preventive |-> AlertePreventive(pluie_prevue,
                                                          protection.protection),
                   alerte_oidium |-> AlerteOidium(oidium.niveau)],
              previsions_3j |->
                  [pluie_totale |-> Round1(pluie_prevue),
                   details |-> [d \in {dates_futures[i] : i \in 1..Len(dates_futures)} |->
                                   meteo_historique[d]]]] :
             decision \in {Decision(risque_simple, protection.protection)},
             pluie_prevue \in {PluiePrevue(meteo_historique, dates_futures)},
             alerte_stade \in {PredireStadeFutur(meteo_historique, date_actuelle,
                                                 gdd.gdd_actuel, gdd.prochain_stade_gdd,
                                                 gdd.prochain_stade_nom, stade_manuel,
                                                 t_base_gdd)} })

\* analyser_parcelle(nom_parcelle, utiliser_ipi): what it returns, with
\* datetime.now() as aujourdhui, rfu_max_mm and t_base_gdd the parameters of the
\* configuration; each model is computed once, and an exception raised by a
\* model leaves the function
AnalyserParcelle(parcelles, meteo_historique, traitements, nom_parcelle, utiliser_ipi, aujourdhui, rfu_max_mm, t_base_gdd) ==
    LET parcelle == parcelles[IndiceParcelle(parcelles, nom_parcelle)]
        date_actuelle == aujourdhui
        meteo_48h == FenetreMeteo(meteo_historique, aujourdhui, 3)
        meteo_7j == FenetreMeteo(meteo_historique, aujourdhui, 7)
        stade_manuel == parcelle.stade_actuel
        stade_coef == StadeCoef(stade_manuel)
    IN  IF IndiceParcelle(parcelles, nom_parcelle) = 0
        THEN ErreurAnalyse("Parcelle non trouvee")
        ELSE IF HistoriqueVide(meteo_historique)
        THEN ErreurAnalyse("Historique meteo vide. Impossible de lancer l'analyse.")
        ELSE IF parcelle.cepages = <<>> THEN Leve("ZeroDivisionError")
        ELSE Lier({
             ResultatAnalyse(parcelle, nom_parcelle, date_actuelle, meteo_historique,
                             t_base_gdd, simple, ipi, oidium, gdd, bilan_hydrique, protection) :
             simple \in {ModeleSimpleRisque(meteo_48h, stade_coef,
                                            SensibiliteMoy(parcelle.cepages))},
             ipi \in {BlocIpi(utiliser_ipi, meteo_48h, stade_coef)},
             oidium \in {ModeleOidiumRisque(meteo_7j, stade_coef)},
             gdd \in {CalculerGdd(parcelle, meteo_historique, date_actuelle, stade_manuel)},
             bilan_hydrique \in {CalculerBilanRfu(meteo_historique, parcelle, stade_manuel,
                                                  rfu_max_mm, aujourdhui)},
             protection \in {CalculerProtectionActuelle(traitements, nom_parcelle,
                                                        date_actuelle, meteo_historique,
                                                        stade_manuel)} })


-----------------------------------------------------------------------------
(* Analyses of the parcels of a configuration: the specification SpecAnalyse.
   The engine holds the configuration, the weather store and the treatment
   log; analyser_parcelle is called on March 10th 2025 for a parcel name, and
   a call that ends in an analysis adds it to the two histories. *)

MaxJourAnalyse == 11        \* last date of the weather store, a day of March 2025

AujourdhuiAnalyse == <<2025, 3, 10>>

\* a stored day record (_mettre_a_jour_historique_meteo)
JourStocke(temp_moy, temp_max, precipitation, humidite, etp, gdd_jour) ==
    [Jour(temp_moy, temp_max, precipitation, humidite) EXCEPT
        !["temp_min"] = temp_moy, !["etp"] = etp, !["gdd_jour"] = gdd_jour]

\* a light rain on a cool day, a heavy rain without a humidity value, a rain on
\* a warm and very humid day, a rain on a mild and humid day
JoursAnalyse ==
    { JourStocke(Z(12), Z(22), Z(2), Z(70), Z(1), Z(2)),
      JourStocke(Z(18), Z(24), Z(12), None, Z(2), Z(8)),
      JourStocke(Z(20), Z(26), Z(6), Z(95), Z(2), Z(10)),
      JourStocke(Z(16), Z(22), Z(6), Z(85), Z(2), Z(6)) }

\* the forecast days: a light rain, a heavy rain
JoursPrevus ==
    { JourStocke(Z(12), Z(22), Z(2), Z(70), Z(1), Z(2)),
      JourStocke(Z(18), Z(24), Z(12), None, Z(2), Z(8)) }

DatesAnalyse == {<<2025, 3, j>> : j \in 9..MaxJourAnalyse}

\* the weather stores: measured days up to the analysis, forecast days after it
HistoriquesAnalyse ==
    { passe @@ futur :
        passe \in Historiques({d \in DatesAnalyse : DateLe(d, AujourdhuiAnalyse)},
                              JoursAnalyse),
        futur \in Historiques({d \in DatesAnalyse : DateLt(AujourdhuiAnalyse, d)},
                              JoursPrevus) }

\* the parcel P1 in its variants, and the parcel P2 past its bud break
ConfigsAnalyse ==
    { <<Parcelle("P1", cepages_stade[1], cepages_stade[2], PasDeDate),
        Parcelle("P2", <<"Mourvedre">>, "debourrement", <<2025, 3, 9>>)>> :
        cepages_stade \in { <<<<"Chardonnay">>, "repos">>,
                            <<<<"Chardonnay">>, "floraison">>,
                            <<<<"Grenache", "Syrah">>, "floraison">>,
                            <<<<"Cepage inconnu">>, "stade inconnu">> } }

JournauxAnalyse ==
    { <<>>,
      <<Traitement("P1", Chaine(<<2025, 3, 1>>), "fosetyl_al", None)>>,
      <<Traitement("P1", Chaine(<<2025, 3, 9>>), "Bouillie Bordelaise", None),
        Traitement("P2", Chaine(<<2025, 3, 10>>), "cymoxanil", None)>> }

RFU_MAX_MM == Z(100)

InitAnalyse ==
    /\ appel \in [fn : {"analyse"},
                  parcelles : ConfigsAnalyse,
                  meteo_historique : HistoriquesAnalyse,
                  traitements : JournauxAnalyse,
                  utiliser_ipi : BOOLEAN,
                  aujourdhui : {AujourdhuiAnalyse},
                  historique_analyses : {<<>>},
                  campagnes : {<<>>}]
    /\ retour = Attente

\* analyser_parcelle(nom_parcelle, utiliser_ipi)
Analyser ==
    /\ appel.fn = "analyse"
    /\ retour = Attente
    /\ \E nom_parcelle \in {"P1", "P2", "P3"} :
          LET analyse == AnalyserParcelle(appel.parcelles, appel.meteo_historique,
                                          appel.traitements, nom_parcelle,
                                          appel.utiliser_ipi, appel.aujourdhui,
                                          RFU_MAX_MM, T_BASE_GDD)
          IN  /\ retour' = analyse
              /\ appel' = IF analyse.leve \/ "erreur" \in DOMAIN analyse
                          THEN appel
                          ELSE [appel EXCEPT
                                   !.historique_analyses =
                                       Append(@, AnalyseJournal(analyse)),
                                   !.campagnes = AjouterAnalyse(@, analyse)]

NextAnalyse == Analyser

SpecAnalyse == InitAnalyse /\ [][NextAnalyse]_vars

\* an analysis was returned: neither an exception nor an 'erreur' result
AnalyseRendue ==
    /\ retour.fait
    /\ appel.fn = "analyse"
    /\ ~retour.leve
    /\ "erreur" \notin DOMAIN retour

\* C11: the decision score of an analysis is the mildew risk score minus the
\* protection score and lies in [-10, 10]; the action is 'TRAITER MAINTENANT'
\* with urgency 'haute' exactly when that score is >= 5, 'Surveiller' with
\* 'moyenne' exactly when it is >= 2 and < 5, 'Pas de traitement' with 'faible'
\* otherwise.
C11_Bande(score) ==
    IF RGe(score, Z(SEUIL_DECISION_HAUTE))
    THEN [action |-> "TRAITER MAINTENANT (Mildiou)", urgence |-> "haute"]
    ELSE IF RGe(score, Z(SEUIL_DECISION_MOYENNE))
    THEN [action |-> "Surveiller - Traiter si pluie annoncee (Mildiou)",
          urgence |-> "moyenne"]
    ELSE [action |-> "Pas de traitement Mildiou necessaire", urgence |-> "faible"]

C11_DecisionParBandes ==
    AnalyseRendue =>
        /\ retour.decision.score =
              RSub(retour.risque_infection.score, retour.protection_actuelle.score)
        /\ RLe(Z(-10), retour.decision.score) /\ RLe(retour.decision.score, Z(10))
        /\ retour.decision.action = C11_Bande(retour.decision.score).action
        /\ retour.decision.urgence = C11_Bande(retour.decision.score).urgence

\* Chardonnay at flowering, 2 mm at 12 degrees: risk 5.6; fosetyl-al nine days
\* old: protection 3.6; the reported score is 2.0 and the urgency 'faible'
C11_Temoin ==
    /\ AnalyseRendue
    /\ retour.risque_infection.score = D1(56)
    /\ retour.protection_actuelle.score = D1(36)
    /\ retour.decision.score = Z(2)
    /\ retour.decision.urgence = "faible"


-----------------------------------------------------------------------------
(* Stage updates of the configuration: the specification SpecConfig. The
   configuration lives in the memory of the engine (self.parcelles) and in the
   file config_vignoble.json. update_parcelle_stade_et_date changes the memory
   and saves it to the file; the dashboard's sauvegarder_stade rewrites the
   file, which load_config reads back into the memory. *)

MaxEcritures == 3           \* writes of the configuration file in a run

\* create_default_config
ConfigDefaut ==
    <<Parcelle("Parcelle 1", <<"Grenache", "Syrah">>, "repos", PasDeDate),
      Parcelle("Parcelle 2", <<"Mourvedre">>, "repos", PasDeDate)>>

StadeConnu_Toujours(nouveau_stade) == TRUE

\* nouveau_stade in self.COEF_STADES
StadeConnu(nouveau_stade) == nouveau_stade \in DOMAIN COEF_STADES

\* the parcel after the three assignments both functions make; a date that is
\* None is PasDeDate
StadeMisAJour(parcelle, nouveau_stade, date_debourrement) ==
    [parcelle EXCEPT
        !.stade_actuel = nouveau_stade,
        !.date_debourrement =
            IF nouveau_stade = "debourrement" /\ date_debourrement # PasDeDate
            THEN date_debourrement
            ELSE IF nouveau_stade = "repos" THEN PasDeDate ELSE @]

\* the parcels after the loop: the first parcel of that name is updated
ParcellesMisesAJour(parcelles, nom_parcelle, nouveau_stade, date_debourrement) ==
    LET k == IndiceParcelle(parcelles, nom_parcelle)
    IN  IF k = 0 THEN parcelles
        ELSE [parcelles EXCEPT ![k] = StadeMisAJour(@, nouveau_stade, date_debourrement)]

\* what update_parcelle_stade_et_date returns
UpdateAccepte(parcelles, nom_parcelle, nouveau_stade) ==
    StadeConnu(nouveau_stade) /\ IndiceParcelle(parcelles, nom_parcelle) # 0

RetourBool(valeur) == [fait |-> TRUE, leve |-> FALSE, valeur |-> valeur]

NomsParcelle == {"Parcelle 1", "Parcelle 2", "Parcelle 3"}
StadesSaisis == {"repos", "debourrement", "floraison", "stade inconnu"}
DatesSaisies == {PasDeDate, <<2025, 3, 9>>, <<2025, 2, 30>>}

InitConfig ==
    /\ appel = [fn |-> "config", op |-> "__init__", nom_parcelle |-> "",
                nouveau_stade |-> "", date_debourrement |-> PasDeDate,
                parcelles |-> ConfigDefaut, fichier |-> ConfigDefaut, ecritures |-> 0]
    /\ retour = Attente

\* ConfigVignoble.update_parcelle_stade_et_date(nom_parcelle, nouveau_stade,
\* date_debourrement), sauvegarder_config included
UpdateParcelleStadeEtDate ==
    /\ appel.fn = "config"
    /\ appel.ecritures < MaxEcritures
    /\ \E nom_parcelle \in NomsParcelle, nouveau_stade \in StadesSaisis,
          date_debourrement \in DatesSaisies :
          LET accepte == UpdateAccepte(appel.parcelles, nom_parcelle, nouveau_stade)
              parcelles == ParcellesMisesAJour(appel.parcelles, nom_parcelle,
                                               nouveau_stade, date_debourrement)
          IN  /\ appel' = [appel EXCEPT
                             !.op = "update_parcelle_stade_et_date",
                             !.nom_parcelle = nom_parcelle,
                             !.nouveau_stade = nouveau_stade,
                             !.date_debourrement = date_debourrement,
                             !.parcelles = IF accepte THEN parcelles ELSE @,
                             !.fichier = IF accepte THEN parcelles ELSE @,
                             !.ecritures = IF accepte THEN @ + 1 ELSE @]
              /\ retour' = RetourBool(accepte)

\* app.py sauvegarder_stade(parcelle_nom, nouveau_stade, date_debourrement): the
\* file is read, changed and written back
SauvegarderStade ==
    /\ appel.fn = "config"
    /\ appel.ecritures < MaxEcritures
    /\ \E nom_parcelle \in NomsParcelle, nouveau_stade \in StadesSaisis,
          date_debourrement \in DatesSaisies :
          /\ appel' = [appel EXCEPT
                         !.op = "sauvegarder_stade",
                         !.nom_parcelle = nom_parcelle,
                         !.nouveau_stade = nouveau_stade,
                         !.date_debourrement = date_debourrement,
                         !.fichier = ParcellesMisesAJour(@, nom_parcelle, nouveau_stade,
                                                         date_debourrement),
                         !.ecritures = @ + 1]
          /\ retour' = RetourBool(TRUE)

\* ConfigVignoble.load_config(), as the dashboard calls it on every run
LoadConfig ==
    /\ appel.fn = "config"
    /\ appel' = [appel EXCEPT
                    !.op = "load_config", !.nom_parcelle = "", !.nouveau_stade = "",
                    !.date_debourrement = PasDeDate, !.parcelles = appel.fichier]
    /\ retour' = Attente

NextConfig == UpdateParcelleStadeEtDate \/ SauvegarderStade \/ LoadConfig

SpecConfig == InitConfig /\ [][NextConfig]_vars

\* C12: update_parcelle_stade_et_date called with a stage that is not a key of
\* COEF_STADES, or with a name that no parcel carries, returns False, leaves
\* the stage and the biofix of every parcel as they were and does not write
\* the configuration file.
C12_RejetSansEffet ==
    [][(/\ appel'.op = "update_parcelle_stade_et_date"
        /\ \/ appel'.nouveau_stade \notin DOMAIN COEF_STADES
           \/ \A i \in 1..Len(appel.parcelles) :
                 appel.parcelles[i].nom # appel'.nom_parcelle)
       => /\ retour'.valeur = FALSE
          /\ appel'.parcelles = appel.parcelles
          /\ appel'.fichier = appel.fichier
          /\ appel'.ecritures = appel.ecritures]_vars

\* an unknown stage was refused for a parcel that has left its initial state
C12_Temoin ==
    /\ retour.fait
    /\ appel.fn = "config"
    /\ appel.op = "update_parcelle_stade_et_date"
    /\ appel.nom_parcelle = "Parcelle 1"
    /\ appel.nouveau_stade = "stade inconnu"
    /\ retour.valeur = FALSE
    /\ appel.parcelles[1].stade_actuel = "debourrement"
    /\ appel.parcelles[1].date_debourrement = <<2025, 3, 9>>
    /\ appel.ecritures = 1


\* the stage of every parcel of a configuration is a known stage, and a parcel
\* at 'repos' has no biofix
C13_Valide(parcelles) ==
    \A i \in 1..Len(parcelles) :
        /\ parcelles[i].stade_actuel \in DOMAIN COEF_STADES
        /\ parcelles[i].stade_actuel = "repos" =>
              parcelles[i].date_debourrement = PasDeDate

\* C13: after any sequence of update_parcelle_stade_et_date and
\* sauvegarder_stade calls from the default configuration (every parcel at
\* 'repos' without biofix), in the memory of the engine and in the file, the
\* stage of every parcel is one of the known stages and a parcel at 'repos' has
\* no biofix date.
C13_StadesConnus ==
    appel.fn = "config" => C13_Valide(appel.parcelles) /\ C13_Valide(appel.fichier)

\* what a step leaves alone, in the store it works on: the other parcels, and
\* the biofix when the new stage is neither 'repos' nor 'debourrement'
C13_Cadre(avant, apres, nom_parcelle, nouveau_stade) ==
    /\ Len(apres) = Len(avant)
    /\ \A i \in 1..Len(avant) :
          /\ avant[i].nom # nom_parcelle => apres[i] = avant[i]
          /\ nouveau_stade \notin {"repos", "debourrement"} =>
                apres[i].date_debourrement = avant[i].date_debourrement

C13_SeuleLaParcelleNommee ==
    [][/\ appel'.op = "update_parcelle_stade_et_date" =>
             C13_Cadre(appel.parcelles, appel'.parcelles, appel'.nom_parcelle,
                       appel'.nouveau_stade)
       /\ appel'.op = "sauvegarder_stade" =>
             C13_Cadre(appel.fichier, appel'.fichier, appel'.nom_parcelle,
                       appel'.nouveau_stade)]_vars

\* sauvegarder_stade has written a stage that COEF_STADES does not know, and
\* load_config has read it
C13_Temoin ==
    /\ appel.fn = "config"
    /\ appel.op = "load_config"
    /\ appel.parcelles[1].stade_actuel = "stade inconnu"
    /\ appel.fichier[1].stade_actuel = "stade inconnu"
    /\ appel.parcelles[2].stade_actuel = "repos"


-----------------------------------------------------------------------------
(* Missing weather data in the score models (SpecModeles) *)

\* C15: no model function raises for missing weather data: with records in
\* which precipitation, humidity, temp_max or temp_moy is absent or null,
\* ModeleSimple.calculer_risque_infection and
\* ModeleOidium.calculer_risque_infection return a score and a tier.
C15_SansException ==
    (retour.fait /\ appel.fn \in {"simple", "oidium"}) => ~retour.leve

\* ModeleSimple was given a window in which the one record that has a
\* temperature has a null precipitation, and raised TypeError
C15_Temoin ==
    /\ retour.fait
    /\ appel.fn = "simple"
    /\ Len(appel.meteo) = 2
    /\ appel.meteo[1] = DictVide
    /\ appel.meteo[2] = Jour(Z(20), Z(25), None, Z(70))
    /\ retour.leve
    /\ retour.erreur = "TypeError"


-----------------------------------------------------------------------------
(* The weather store and its refreshes: the specification SpecMeteo. The
   engine loads the store from its file when it starts, then
   _mettre_a_jour_historique_meteo merges what MeteoAPI.get_meteo_data returns
   ({} when the request fails) and saves the store to the file. *)

MaxJourMeteo == 10          \* last date a fetch can carry, a day of March 2025

AujourdhuiMeteo == <<2025, 3, 10>>

\* a record of _format_meteo_data: the six keys, temp_moy made from the two
\* temperatures and 0.0 when both are null; no key gdd_jour
FormatJour(temp_max, temp_min, precipitation, humidite, etp) ==
    [c \in Champs |->
        CASE c = "temp_max" -> temp_max
          [] c = "temp_min" -> temp_min
          [] c = "temp_moy" ->
                IF temp_max # None /\ temp_min # None
                THEN RDiv(RAdd(temp_max, temp_min), Z(2))
                ELSE IF temp_max # None THEN temp_max
                ELSE IF temp_min # None THEN temp_min
                ELSE Z(0)
          [] c = "precipitation" -> precipitation
          [] c = "humidite" -> humidite
          [] c = "etp" -> etp
          [] OTHER -> Absent]

EchecFetch_Jamais(meteo_data_recent) == FALSE

\* not meteo_data_recent
EchecFetch(meteo_data_recent) == DOMAIN meteo_data_recent = {}

\* the keys of the dict given to update()
ChampsFusionnes ==
    {"temp_moy", "temp_max", "temp_min", "precipitation", "humidite", "etp", "gdd_jour"}

\* meteo_historique[date_str] after update({...}) with the record data of the
\* fetch; ancien is {} for a new date
JourFusionne(ancien, data, t_base) ==
    LET t == Get(data, "temp_moy", Z(0))
        temp_moy == IF t = None THEN Z(0) ELSE t
        gdd_journalier == RMax(Z(0), RSub(temp_moy, t_base))
    IN  [c \in Champs |->
            IF c \notin ChampsFusionnes THEN ancien[c]
            ELSE IF c = "temp_moy" THEN temp_moy
            ELSE IF c = "gdd_jour" THEN gdd_journalier
            ELSE Get(data, c, None)]

\* the store after the loop over the fetch
Fusion(meteo_historique, meteo_data_recent, t_base) ==
    [d \in DOMAIN meteo_historique \cup DOMAIN meteo_data_recent |->
        IF d \notin DOMAIN meteo_data_recent THEN meteo_historique[d]
        ELSE JourFusionne(MeteoDuJour(meteo_historique, d), meteo_data_recent[d], t_base)]

\* what _sauvegarder_meteo_historique writes: the dates of the last 366 days
\* and those of the current year
Sauvegarde(meteo_historique, aujourdhui) ==
    [d \in {x \in DOMAIN meteo_historique :
               \/ Ordinal(aujourdhui) - Ordinal(x) <= 366
               \/ x[1] = aujourdhui[1]} |-> meteo_historique[d]]

\* what the API gives for a day: every value, on a mild and on a cold day;
\* nothing but nulls; no minimum temperature and no rain value
JoursRecus ==
    { FormatJour(Z(20), Z(10), Z(5), Z(70), Z(2)),
      FormatJour(Z(8), Z(2), Z(0), Z(60), Z(1)),
      FormatJour(None, None, None, None, None),
      FormatJour(Z(25), None, None, Z(80), Z(3)) }

DatesMeteo == {<<2025, 3, j>> : j \in 9..MaxJourMeteo}

\* the file left by an earlier season, or no file
FichiersMeteo ==
    { [d \in {} |-> DictVide],
      (<<2023, 12, 31>> :> JourFusionne(DictVide, FormatJour(Z(12), Z(2), Z(1), Z(90), Z(1)),
                                        T_BASE_GDD)) }

InitMeteo ==
    /\ appel \in [fn : {"meteo"}, op : {"_charger_meteo_historique"},
                  recu : {[d \in {} |-> DictVide]},
                  meteo_historique : FichiersMeteo,
                  fichier : FichiersMeteo]
    /\ appel.meteo_historique = appel.fichier
    /\ retour = Attente

\* _mettre_a_jour_historique_meteo(), with what get_meteo_data returned
MettreAJourHistoriqueMeteo ==
    /\ appel.fn = "meteo"
    /\ \E meteo_data_recent \in Historiques(DatesMeteo, JoursRecus) :
          LET fusion == Fusion(appel.meteo_historique, meteo_data_recent, T_BASE_GDD)
          IN  /\ appel' = IF EchecFetch(meteo_data_recent)
                          THEN [appel EXCEPT !.op = "_mettre_a_jour_historique_meteo",
                                             !.recu = meteo_data_recent]
                          ELSE [appel EXCEPT !.op = "_mettre_a_jour_historique_meteo",
                                             !.recu = meteo_data_recent,
                                             !.meteo_historique = fusion,
                                             !.fichier = Sauvegarde(fusion, AujourdhuiMeteo)]
              /\ retour' = [fait |-> TRUE, leve |-> FALSE,
                            historique |-> appel'.meteo_historique]

\* SystemeDecision.__init__ of a new run: the store is what the file holds
ChargerMeteoHistorique ==
    /\ appel.fn = "meteo"
    /\ appel' = [appel EXCEPT !.op = "_charger_meteo_historique",
                              !.recu = [d \in {} |-> DictVide],
                              !.meteo_historique = appel.fichier]
    /\ retour' = Attente

NextMeteo == MettreAJourHistoriqueMeteo \/ ChargerMeteoHistorique

SpecMeteo == InitMeteo /\ [][NextMeteo]_vars

\* C16: merging a fetch into the weather store is non-destructive: no date of
\* the store is removed, a field for which the fetch carries a value takes that
\* value, and a stored field is kept when the fetch carries no value for it
\* (gdd_jour, which the merge computes, set apart).
C16_Pas(avant, recu, apres) ==
    /\ DOMAIN avant \subseteq DOMAIN apres
    /\ \A d \in DOMAIN recu : \A c \in ChampsFusionnes \ {"gdd_jour"} :
          /\ IsNum(recu[d][c]) => apres[d][c] = recu[d][c]
          /\ (d \in DOMAIN avant /\ ~IsNum(recu[d][c])) => apres[d][c] = avant[d][c]
    /\ \A d \in DOMAIN avant \ DOMAIN recu : apres[d] = avant[d]

C16_FusionNonDestructive ==
    [][appel'.op = "_mettre_a_jour_historique_meteo" =>
          C16_Pas(appel.meteo_historique, appel'.recu, appel'.meteo_historique)]_vars

\* a fetch with a null rain for 9 March was merged into a store that an earlier
\* fetch had filled (its record of 10 March is still there): the store now holds
\* the null
C16_Temoin ==
    /\ retour.fait
    /\ appel.fn = "meteo"
    /\ appel.op = "_mettre_a_jour_historique_meteo"
    /\ <<2025, 3, 9>> \in DOMAIN appel.recu
    /\ appel.recu[<<2025, 3, 9>>] = FormatJour(Z(25), None, None, Z(80), Z(3))
    /\ appel.meteo_historique[<<2025, 3, 9>>]["precipitation"] = None
    /\ <<2025, 3, 10>> \in DOMAIN appel.meteo_historique
    /\ <<2025, 3, 10>> \notin DOMAIN appel.recu
    /\ appel.meteo_historique[<<2025, 3, 10>>]["precipitation"] = Z(5)

\* C17: a failed fetch, get_meteo_data returning {}, leaves the weather store as
\* it was, no date added, removed or changed, and the file is not rewritten;
\* the function returns that store.
C17_EchecSansEffet ==
    [][(appel'.op = "_mettre_a_jour_historique_meteo" /\ DOMAIN appel'.recu = {}) =>
          /\ appel'.meteo_historique = appel.meteo_historique
          /\ appel'.fichier = appel.fichier
          /\ retour'.historique = appel.meteo_historique]_vars

\* the fetch failed on a store that holds a day of 2023, which the file no
\* longer has, and the merged days of an earlier fetch
C17_Temoin ==
    /\ retour.fait
    /\ appel.fn = "meteo"
    /\ appel.op = "_mettre_a_jour_historique_meteo"
    /\ DOMAIN appel.recu = {}
    /\ DOMAIN appel.meteo_historique = {<<2023, 12, 31>>} \cup DatesMeteo
    /\ DOMAIN appel.fichier = DatesMeteo
    /\ appel.meteo_historique[<<2025, 3, 9>>]["precipitation"] = Z(5)
    /\ retour.historique = appel.meteo_historique


-----------------------------------------------------------------------------
(* An analysis without weather data. *)

\* the models of an analysis gave their fallback values: mildew and powdery
\* mildew scores (0, FAIBLE)
C18_Replis(analyse) ==
    /\ analyse.risque_infection.score = Z(0)
    /\ analyse.risque_infection.niveau = "FAIBLE"
    /\ analyse.risque_oidium.score = Z(0)
    /\ analyse.risque_oidium.niveau = "FAIBLE"

\* the call named a parcel the configuration does not have
C18_SansParcelle == retour = ErreurAnalyse("Parcelle non trouvee")

\* C18 as stated: with an empty weather history the analysis of an existing
\* parcel is still produced, with mildew and powdery mildew scores (0, FAIBLE).
C18_Original ==
    [][(appel.fn = "analyse" /\ DOMAIN appel.meteo_historique = {}
          /\ retour'.fait /\ ~retour'.leve /\ ~C18_SansParcelle')
          => (/\ "erreur" \notin DOMAIN retour'
              /\ C18_Replis(retour'))]_vars

\* C18: with an empty weather history analyser_parcelle runs no model: for an
\* existing parcel it returns the result {'erreur': 'Historique meteo vide...'},
\* raises nothing and records nothing in the two histories of analyses. The
\* fallback scores (0, FAIBLE) are those of an analysis whose history is not
\* empty but has no record in the 3 and 7 days before the analysis.
C18_HistoriqueVide ==
    [][(appel.fn = "analyse" /\ retour'.fait) =>
          /\ (DOMAIN appel.meteo_historique = {} /\ ~C18_SansParcelle') =>
                /\ retour' = ErreurAnalyse("Historique meteo vide. Impossible de lancer l'analyse.")
                /\ appel' = appel
          /\ (/\ DOMAIN appel.meteo_historique # {}
              /\ \A d \in DOMAIN appel.meteo_historique : DateLt(appel.aujourdhui, d)
              /\ ~retour'.leve /\ "erreur" \notin DOMAIN retour')
                => C18_Replis(retour')]_vars

\* the analysis of parcel P1 was asked with an empty history and ended in the
\* error result; nothing was recorded
C18_Temoin ==
    /\ retour.fait
    /\ appel.fn = "analyse"
    /\ DOMAIN appel.meteo_historique = {}
    /\ ~retour.leve
    /\ "erreur" \in DOMAIN retour
    /\ retour.erreur = "Historique meteo vide. Impossible de lancer l'analyse."
    /\ appel.historique_analyses = <<>>

\* an analysis was returned on a history that only holds a day after the
\* analysis: every model fell back
C18_TemoinRepli ==
    /\ AnalyseRendue
    /\ DOMAIN appel.meteo_historique = {<<2025, 3, 11>>}
    /\ C18_Replis(retour)


-----------------------------------------------------------------------------
(* The IPI block of an analysis. *)

\* the three tiers of a computed index
C19_Niveaux == {"FAIBLE", "MOYEN", "FORT"}

\* the stage coefficient of the parcel analysed
C19_StadeCoef ==
    StadeCoef(appel.parcelles[IndiceParcelle(appel.parcelles, retour.parcelle)].stade_actuel)

\* the day of maximum rain of the three days up to the analysis
C19_JourMax == JourMaxPluie(FenetreMeteo(appel.meteo_historique, appel.aujourdhui, 3))

\* that day has a record with at least 2 mm
C19_Pluie ==
    /\ C19_JourMax # DictVide
    /\ RGe(Get(C19_JourMax, "precipitation", Z(0)), Z(2))

\* the wetness duration estimated for that day is positive
C19_Humectation ==
    RGt(EstimerDureeHumectation(Get(C19_JourMax, "precipitation", None),
                                Get(C19_JourMax, "humidite", None)), Z(0))

\* C19: in an analysis with the IPI enabled, the index is computed by
\* calculer_ipi exactly when the stage coefficient is > 0, the day of maximum
\* rain of the 3-day window has >= 2 mm and its wetness duration is > 0; its
\* tier is then FORT for a value >= 60, MOYEN for >= 30, else FAIBLE. A dormant
\* stage, an insufficient rain and a null wetness each give the index 0 with a
\* tier of their own, different from the three tiers and from one another.
C19_BlocIpi ==
    (AnalyseRendue /\ appel.utiliser_ipi) =>
        LET ipi == retour.risque_infection.ipi
            niveau == retour.risque_infection.ipi_niveau
            calcule == RGt(C19_StadeCoef, Z(0)) /\ C19_Pluie /\ C19_Humectation
        IN  /\ niveau \in C19_Niveaux <=> calcule
            /\ calcule =>
                  /\ ipi = Z(CalculerIpi(C19_JourMax,
                                         EstimerDureeHumectation(
                                             Get(C19_JourMax, "precipitation", None),
                                             Get(C19_JourMax, "humidite", None))))
                  /\ niveau = "FORT" <=> RGe(ipi, Z(60))
                  /\ niveau = "MOYEN" <=> (RGe(ipi, Z(30)) /\ RLt(ipi, Z(60)))
                  /\ niveau = "FAIBLE" <=> RLt(ipi, Z(30))
            /\ ~RGt(C19_StadeCoef, Z(0)) =>
                  niveau = "NUL (Repos vegetatif)" /\ ipi = Z(0)
            /\ (RGt(C19_StadeCoef, Z(0)) /\ ~C19_Pluie) =>
                  niveau = "FAIBLE (Pluie Insuff.)" /\ ipi = Z(0)
            /\ (RGt(C19_StadeCoef, Z(0)) /\ C19_Pluie /\ ~C19_Humectation) =>
                  niveau = "FAIBLE (Humect. Nulle)" /\ ipi = Z(0)
            /\ Cardinality(C19_Niveaux \cup {"NUL (Repos vegetatif)",
                                             "FAIBLE (Pluie Insuff.)",
                                             "FAIBLE (Humect. Nulle)"}) = 6

\* an analysis of a parcel in bloom whose wettest day, 6 mm at 16 degrees and
\* 85 % humidity, gave the index 30, tier MOYEN
C19_Temoin ==
    /\ AnalyseRendue
    /\ appel.utiliser_ipi
    /\ RGt(C19_StadeCoef, Z(0))
    /\ C19_Pluie
    /\ C19_Humectation
    /\ retour.risque_infection.ipi = Z(30)
    /\ retour.risque_infection.ipi_niveau = "MOYEN"

\* analyses in which the index was not computed: a dormant parcel, a window
\* without 2 mm of rain, a rainy day without a humidity value
C19_TemoinRepos ==
    /\ AnalyseRendue
    /\ appel.utiliser_ipi
    /\ retour.stade = "repos"
    /\ C19_Pluie
    /\ retour.risque_infection.ipi_niveau = "NUL (Repos vegetatif)"

C19_TemoinPluie ==
    /\ AnalyseRendue
    /\ appel.utiliser_ipi
    /\ retour.stade = "floraison"
    /\ ~C19_Pluie
    /\ retour.risque_infection.ipi_niveau = "FAIBLE (Pluie Insuff.)"

C19_TemoinHumectation ==
    /\ AnalyseRendue
    /\ appel.utiliser_ipi
    /\ retour.stade = "floraison"
    /\ C19_Pluie
    /\ ~C19_Humectation
    /\ retour.risque_infection.ipi_niveau = "FAIBLE (Humect. Nulle)"


-----------------------------------------------------------------------------
(* Invalid dates given to the phenology model. *)

\* _calculer_gdd was called, out of dormancy, with a bud break date that is
\* not a date of the calendar
C20_BiofixInvalide ==
    /\ retour.fait
    /\ appel.fn = "gdd"
    /\ appel.stade_manuel # "repos"
    /\ appel.parcelle.date_debourrement # PasDeDate
    /\ ~DateValide(appel.parcelle.date_debourrement)

\* C20: an invalid date string given to _calculer_gdd, here the bud break date
\* '2025-02-30', ends in an error that reaches the caller, never in a result
\* that looks like a computed one.
C20_EchecBruyant == C20_BiofixInvalide => retour.leve

\* the call with the bud break date '2025-02-30' returned 0 degree days, the
\* stage 'repos', no next stage and the mode 'Erreur'
C20_Temoin ==
    /\ C20_BiofixInvalide
    /\ appel.parcelle.date_debourrement = <<2025, 2, 30>>
    /\ ~retour.leve
    /\ retour = [CalculerGdd(appel.parcelle, appel.meteo_historique, appel.date_actuelle,
                             appel.stade_manuel) EXCEPT !.alerte = retour.alerte]
    /\ retour.gdd_actuel = 0
    /\ retour.stade_estime = "repos"
    /\ retour.mode_calcul = Mode("Erreur", PasDeDate)


-----------------------------------------------------------------------------
(* What an analysis changes in the engine. *)

\* the inputs of the engine are the same in both states: weather store,
\* treatment log, configuration of every parcel
C21_EntreesIntactes(avant, apres) ==
    /\ apres.meteo_historique = avant.meteo_historique
    /\ apres.traitements = avant.traitements
    /\ apres.parcelles = avant.parcelles
    /\ apres.utiliser_ipi = avant.utiliser_ipi
    /\ apres.aujourdhui = avant.aujourdhui

\* C21: analyser_parcelle, for a known or an unknown parcel name, leaves the
\* weather store, the treatment log and the configuration of every parcel as
\* they were. A call that returns an 'erreur' result (or raises) changes
\* nothing at all; a call that returns an analysis adds one record, of that
\* date and parcel, at the end of historique_analyses and hands the analysis to
\* the history of campaigns, and changes nothing else.
C21_LectureSeule ==
    [][(appel.fn = "analyse" /\ retour'.fait) =>
          /\ C21_EntreesIntactes(appel, appel')
          /\ (retour'.leve \/ "erreur" \in DOMAIN retour') => appel' = appel
          /\ (~retour'.leve /\ "erreur" \notin DOMAIN retour') =>
                /\ Len(appel'.historique_analyses) = Len(appel.historique_analyses) + 1
                /\ SubSeq(appel'.historique_analyses, 1, Len(appel.historique_analyses))
                      = appel.historique_analyses
                /\ LET ajout == appel'.historique_analyses[Len(appel'.historique_analyses)]
                   IN  /\ ajout.date = appel.aujourdhui
                       /\ ajout.parcelle = retour'.parcelle
                       /\ ajout.risque = retour'.risque_infection.score
                       /\ ajout.protection = retour'.protection_actuelle.score
                /\ appel'.campagnes = AjouterAnalyse(appel.campagnes, retour')]_vars

\* an analysis of P1 was returned by an engine that holds a treatment log and
\* a weather store of three days; one record was added to historique_analyses
C21_Temoin ==
    /\ AnalyseRendue
    /\ retour.parcelle = "P1"
    /\ Len(appel.traitements) = 2
    /\ DOMAIN appel.meteo_historique = DatesAnalyse
    /\ Len(appel.historique_analyses) = 1
    /\ appel.historique_analyses[1].parcelle = "P1"
    /\ Len(appel.campagnes) = 1

\* the parcel P3 is unknown: the 'erreur' result, and nothing recorded
C21_TemoinErreur ==
    /\ retour.fait
    /\ appel.fn = "analyse"
    /\ retour = ErreurAnalyse("Parcelle non trouvee")
    /\ appel.historique_analyses = <<>>
    /\ appel.campagnes = <<>>


-----------------------------------------------------------------------------
(* Tier and score of the two risk models. *)

\* C22: the tier returned by ModeleSimple and ModeleOidium is the tier of the
\* score returned with it: FORT exactly when that score, rounded to one
\* decimal, is >= 7, MOYEN exactly when it is >= 4 and < 7, FAIBLE otherwise.
C22_NiveauSelonScore ==
    (retour.fait /\ appel.fn \in {"simple", "oidium"} /\ ~retour.leve) =>
        /\ retour.niveau = "FORT" <=> RGe(retour.score, Z(7))
        /\ retour.niveau = "MOYEN" <=> (RGe(retour.score, Z(4)) /\ RLt(retour.score, Z(7)))
        /\ retour.niveau = "FAIBLE" <=> RLt(retour.score, Z(4))

\* ModeleSimple returned the score 7.0 with the tier MOYEN: 4 points at
\* coefficient 1.8 and sensitivity 29/6 make 6.96
C22_Temoin ==
    /\ retour.fait
    /\ appel.fn = "simple"
    /\ ~retour.leve
    /\ appel.stade_coef = D1(18)
    /\ appel.sensibilite = Q(29, 6)
    /\ Len(appel.meteo) = 2
    /\ appel.meteo[1] = Jour(D1(95), Z(14), Z(3), Z(86))
    /\ appel.meteo[2] = appel.meteo[1]
    /\ retour.score = Z(7)
    /\ retour.niveau = "MOYEN"

\* ModeleOidium returned the score 4.0 with the tier FAIBLE: a third of the
\* points at coefficient 1.8, a float just below 4
C22_TemoinOidium ==
    /\ retour.fait
    /\ appel.fn = "oidium"
    /\ appel.stade_coef = D1(18)
    /\ retour.score = Z(4)
    /\ retour.niveau = "FAIBLE"


-----------------------------------------------------------------------------
(* Tier and percentage of the water balance. *)

\* C23: the tier of calculer_bilan_rfu is 'Dormance' whenever the stage is
\* 'repos'; otherwise it is the tier of the rfu_pct returned with it: 'STRESS
\* FORT' exactly when that percentage is <= 30, 'SURVEILLANCE' exactly when it
\* is > 30 and <= 60, 'CONFORTABLE' exactly when it is > 60.
C23_NiveauSelonPct ==
    (retour.fait /\ appel.fn = "bilan" /\ ~retour.leve) =>
        IF appel.stade_actuel = "repos" THEN retour.niveau = "Dormance"
        ELSE /\ retour.niveau = "STRESS FORT" <=> RLe(retour.rfu_pct, Z(30))
             /\ retour.niveau = "SURVEILLANCE" <=>
                   (RGt(retour.rfu_pct, Z(30)) /\ RLe(retour.rfu_pct, Z(60)))
             /\ retour.niveau = "CONFORTABLE" <=> RGt(retour.rfu_pct, Z(60))

\* a reserve of 50 mm after two days of 9.99 mm of evapotranspiration: 30.02 mm
\* left, 60.04 %, returned as 60.0 with the tier CONFORTABLE
C23_Temoin ==
    /\ retour.fait
    /\ appel.fn = "bilan"
    /\ ~retour.leve
    /\ appel.stade_actuel = "floraison"
    /\ appel.rfu_max_mm = Z(50)
    /\ appel.parcelle.date_debourrement = PasDeDate
    /\ {<<2025, 3, 1>>, <<2025, 3, 2>>} \subseteq DOMAIN appel.meteo_historique
    /\ appel.meteo_historique[<<2025, 3, 1>>] = JourEau(Z(0), Q(999, 100))
    /\ appel.meteo_historique[<<2025, 3, 2>>] = JourEau(Z(0), Q(999, 100))
    /\ retour.rfu_pct = Z(60)
    /\ retour.niveau = "CONFORTABLE"

\* a dormant parcel whose reserve is empty: 'Dormance'
C23_TemoinRepos ==
    /\ retour.fait
    /\ appel.fn = "bilan"
    /\ ~retour.leve
    /\ appel.stade_actuel = "repos"
    /\ appel.rfu_max_mm = Z(100)
    /\ retour.rfu_pct = Z(0)
    /\ retour.niveau = "Dormance"


-----------------------------------------------------------------------------
(* The treatment the protection is read from. *)

C24_TraitementsParcelle ==
    SelectSeq(appel.traitements, LAMBDA t : t.parcelle = appel.parcelle)

\* the day of the latest treatment of the parcel, as a day number
C24_DernierJour ==
    LET tp == C24_TraitementsParcelle
    IN  CHOOSE n \in {Ordinal(Strptime(tp[i].date)) : i \in 1..Len(tp)} :
            \A i \in 1..Len(tp) : Ordinal(Strptime(tp[i].date)) <= n

\* C24: calculer_protection_actuelle returns (0, no treatment, 'Aucun
\* traitement') when the log has no treatment for the parcel; otherwise it
\* uses the treatment of the parcel with the greatest date, and when that date
\* is after the evaluation date it returns the protection 10 with the factor
\* 'Traitement futur', whatever the rain, the product, the stage and the
\* earlier treatments of the parcel.
C24_DernierTraitement ==
    (retour.fait /\ appel.fn = "protection") =>
        LET tp == C24_TraitementsParcelle
        IN  IF tp = <<>>
            THEN retour = RetourProtection(Z(0), TraitementVide, Facteur("Aucun traitement"))
            ELSE (/\ \A i \in 1..Len(tp) : ~StrptimeLeve(tp[i].date)
                  /\ ~retour.leve) =>
                    /\ \E i \in 1..Len(tp) : retour.traitement = tp[i]
                    /\ Ordinal(Strptime(retour.traitement.date)) = C24_DernierJour
                    /\ C24_DernierJour > Ordinal(appel.date_actuelle) =>
                          /\ retour.protection = Z(10)
                          /\ retour.facteur_limitant = Facteur("Traitement futur")

\* on 5 March, a log with a treatment typed '2025-3-1' and one of 20 March:
\* the protection is read from the treatment of 1 March
C24_Temoin ==
    /\ retour.fait
    /\ appel.fn = "protection"
    /\ ~retour.leve
    /\ appel.date_actuelle = <<2025, 3, 5>>
    /\ Len(appel.traitements) = 2
    /\ appel.traitements[1] = Traitement("P1", DateCourte, "mancozebe", None)
    /\ appel.traitements[2] = Traitement("P1", Chaine(<<2025, 3, 20>>), "Produit X", None)
    /\ retour.traitement = appel.traitements[1]
    /\ retour.facteur_limitant.nom # "Traitement futur"

\* a treatment of 20 March after one of 27 February, read on 6 March after
\* 40 mm of rain: protection 10, 'Traitement futur'
C24_TemoinFutur ==
    /\ retour.fait
    /\ appel.fn = "protection"
    /\ appel.date_actuelle = <<2025, 3, 6>>
    /\ Len(appel.traitements) = 2
    /\ appel.traitements[1] = Traitement("P1", Chaine(<<2025, 2, 27>>), "cymoxanil", D1(4))
    /\ appel.traitements[2] = Traitement("P1", Chaine(<<2025, 3, 20>>), "Produit X", None)
    /\ <<2025, 3, 6>> \in DOMAIN appel.meteo_periode
    /\ <<2025, 2, 28>> \in DOMAIN appel.meteo_periode
    /\ retour = RetourProtection(Z(10), appel.traitements[2], Facteur("Traitement futur"))

\* a log that holds a treatment of another parcel only
C24_TemoinAucun ==
    /\ retour.fait
    /\ appel.fn = "protection"
    /\ Len(appel.traitements) = 1
    /\ appel.traitements[1].parcelle = "P2"
    /\ retour = RetourProtection(Z(0), TraitementVide, Facteur("Aucun traitement"))


-----------------------------------------------------------------------------
(* What a treatment appended to the log changes. *)

\* the log before its last treatment was appended
C29_Avant == SubSeq(appel.traitements, 1, Len(appel.traitements) - 1)

C29_Ajoute == appel.traitements[Len(appel.traitements)]

C29_AvantParcelle == SelectSeq(C29_Avant, LAMBDA t : t.parcelle = appel.parcelle)

\* the appended treatment is one of the parcel, dated strictly before the
\* latest treatment the parcel had
C29_PlusAncien ==
    /\ C29_Ajoute.parcelle = appel.parcelle
    /\ ~StrptimeLeve(C29_Ajoute.date)
    /\ C29_AvantParcelle # <<>>
    /\ \A i \in 1..Len(C29_AvantParcelle) : ~StrptimeLeve(C29_AvantParcelle[i].date)
    /\ \E i \in 1..Len(C29_AvantParcelle) :
          Ordinal(Strptime(C29_Ajoute.date)) < Ordinal(Strptime(C29_AvantParcelle[i].date))

\* C29: the protection of a parcel depends only on its latest treatment: once a
\* treatment of another parcel, or a treatment of the parcel dated strictly
\* before its latest one, has been appended to the log, the result of
\* calculer_protection_actuelle is what it was without it, on every evaluation
\* date.
C29_AjoutSansEffet ==
    (/\ retour.fait
     /\ appel.fn = "protection"
     /\ appel.traitements # <<>>
     /\ C29_Ajoute.parcelle # appel.parcelle \/ C29_PlusAncien) =>
        retour = CalculerProtectionActuelle(C29_Avant, appel.parcelle, appel.date_actuelle,
                                            appel.meteo_periode, appel.stade_actuel)

\* on 5 March, a treatment typed '2025-3-1' appended after one of 20 March:
\* the result was (10, 'Traitement futur') and is now read from 1 March
C29_Temoin ==
    /\ retour.fait
    /\ appel.fn = "protection"
    /\ ~retour.leve
    /\ appel.date_actuelle = <<2025, 3, 5>>
    /\ Len(appel.traitements) = 2
    /\ appel.traitements[1] = Traitement("P1", Chaine(<<2025, 3, 20>>), "Produit X", None)
    /\ C29_Ajoute = Traitement("P1", DateCourte, "mancozebe", None)
    /\ C29_PlusAncien
    /\ retour.traitement = C29_Ajoute
    /\ CalculerProtectionActuelle(C29_Avant, "P1", appel.date_actuelle, appel.meteo_periode,
                                  appel.stade_actuel).facteur_limitant = Facteur("Traitement futur")

\* a treatment of 27 February appended after '2025-3-1': nothing changes
C29_TemoinAncien ==
    /\ retour.fait
    /\ appel.fn = "protection"
    /\ ~retour.leve
    /\ Len(appel.traitements) = 2
    /\ appel.traitements[1] = Traitement("P1", DateCourte, "mancozebe", None)
    /\ C29_Ajoute = Traitement("P1", Chaine(<<2025, 2, 27>>), "fosetyl_al", None)
    /\ C29_PlusAncien
    /\ retour.traitement = appel.traitements[1]

\* a treatment of the parcel P2 appended after one of P1: nothing changes
C29_TemoinAutreParcelle ==
    /\ retour.fait
    /\ appel.fn = "protection"
    /\ ~retour.leve
    /\ Len(appel.traitements) = 2
    /\ appel.traitements[1].parcelle = "P1"
    /\ C29_Ajoute.parcelle = "P2"
    /\ retour.traitement = appel.traitements[1]


-----------------------------------------------------------------------------
(* The start of the season in the degree days and in the water balance: the
   specification SpecSaison runs the calls of SpecGdd and those of SpecBilan. *)

InitSaison == InitGdd \/ InitBilan

NextSaison == AppelCalculerGdd \/ AppelPredireStadeFutur \/ AppelBilan

SpecSaison == InitSaison /\ [][NextSaison]_vars

\* today: the date given to _calculer_gdd, datetime.now() in calculer_bilan_rfu
C25_Aujourdhui == IF appel.fn = "gdd" THEN appel.date_actuelle ELSE appel.aujourdhui

C25_Biofix == appel.parcelle.date_debourrement

\* the start the statement names
C25_Debut ==
    IF /\ C25_Biofix # PasDeDate
       /\ C25_Biofix[1] = C25_Aujourdhui[1]
       /\ ~DateLt(C25_Aujourdhui, C25_Biofix)
    THEN C25_Biofix
    ELSE <<C25_Aujourdhui[1], 3, 1>>

\* the dates of the history from the start to today, in order
C25_Jours ==
    SortedDates({ d \in DOMAIN appel.meteo_historique :
                    DateLe(C25_Debut, d) /\ DateLe(d, C25_Aujourdhui) })

C25_Gdd ==
    RSum([i \in 1..Len(C25_Jours) |->
             Get(appel.meteo_historique[C25_Jours[i]], "gdd_jour", Z(0))])

C25_Reserve ==
    IF C25_Jours = <<>> THEN appel.rfu_max_mm
    ELSE RfuParJour(appel.meteo_historique, C25_Jours, appel.rfu_max_mm)[Len(C25_Jours)]

\* C25: the season starts on the biofix of the parcel exactly when it is set,
\* of the current year and not after today, and on March 1st of the current
\* year otherwise; the degree days of _calculer_gdd and the reserve of
\* calculer_bilan_rfu are those of the dates of the history from that start to
\* today and of no other date.
C25_DebutDeSaison ==
    /\ (/\ retour.fait
        /\ appel.fn = "gdd"
        /\ appel.stade_manuel # "repos"
        /\ retour.mode_calcul.nom # "Erreur") =>
            /\ retour.gdd_actuel = Tronque(C25_Gdd)
            /\ retour.mode_calcul.nom = "Biofix" <=> C25_Debut = C25_Biofix
    /\ (/\ retour.fait
        /\ appel.fn = "bilan"
        /\ ~retour.leve) =>
            /\ DOMAIN retour.historique_pct = {C25_Jours[i] : i \in 1..Len(C25_Jours)}
            /\ retour.rfu_mm = Round1(C25_Reserve)

\* on 3 March, a biofix of 28 February and 7.5 degree days on each of the four
\* dates 28 February to 3 March: 30 degree days
C25_Temoin ==
    /\ retour.fait
    /\ appel.fn = "gdd"
    /\ appel.stade_manuel = "floraison"
    /\ appel.date_actuelle = <<2025, 3, 3>>
    /\ C25_Biofix = <<2025, 2, 28>>
    /\ DOMAIN appel.meteo_historique = DatesGdd
    /\ \A d \in DatesGdd : appel.meteo_historique[d] = JourGdd(D1(75), D1(175))
    /\ retour.mode_calcul = Mode("Biofix", <<2025, 2, 28>>)
    /\ retour.gdd_actuel = 30

\* the same history with a biofix of 2024: March 1st, 22 degree days
C25_TemoinAutreAnnee ==
    /\ retour.fait
    /\ appel.fn = "gdd"
    /\ appel.stade_manuel = "floraison"
    /\ appel.date_actuelle = <<2025, 3, 3>>
    /\ C25_Biofix = <<2024, 3, 2>>
    /\ DOMAIN appel.meteo_historique = DatesGdd
    /\ \A d \in DatesGdd : appel.meteo_historique[d] = JourGdd(D1(75), D1(175))
    /\ retour.mode_calcul.nom = "1er Mars (Estimation)"
    /\ retour.gdd_actuel = 22

\* the water balance on 2 March with a biofix of 3 March: the days of 1 and
\* 2 March count, 28 February and 3 March do not
C25_TemoinBilanFutur ==
    /\ retour.fait
    /\ appel.fn = "bilan"
    /\ ~retour.leve
    /\ C25_Biofix = <<2025, 3, 3>>
    /\ DOMAIN appel.meteo_historique = DatesHistorique
    /\ \A d \in DatesHistorique : appel.meteo_historique[d] = JourEau(Z(0), Q(999, 100))
    /\ appel.rfu_max_mm = Z(100)
    /\ DOMAIN retour.historique_pct = {<<2025, 3, 1>>, <<2025, 3, 2>>}
    /\ retour.rfu_mm = Z(80)

\* the water balance with the biofix of today: the day of 1 March does not count
C25_TemoinBilanBiofix ==
    /\ retour.fait
    /\ appel.fn = "bilan"
    /\ ~retour.leve
    /\ C25_Biofix = appel.aujourdhui
    /\ <<2025, 3, 1>> \in DOMAIN appel.meteo_historique
    /\ DOMAIN retour.historique_pct = {appel.aujourdhui}


-----------------------------------------------------------------------------
(* The stage read from the degree days. *)

\* the thresholds of the statement and their stages
C26_Seuils == {180, 300, 500, 600, 750, 900, 1200, 1500, 1800}

C26_Stade(seuil) ==
    CASE seuil = 180 -> "debourrement"
      [] seuil = 300 -> "pousse_10cm"
      [] seuil = 500 -> "pre_floraison"
      [] seuil = 600 -> "floraison"
      [] seuil = 750 -> "nouaison"
      [] seuil = 900 -> "fermeture_grappe"
      [] seuil = 1200 -> "veraison"
      [] seuil = 1500 -> "maturation"
      [] seuil = 1800 -> "repos"

\* the cumulative degree days of the call, before int()
C26_Somme ==
    LET jours == JoursDeSaison(appel.meteo_historique,
                               DateDebutSaison(appel.parcelle.date_debourrement,
                                               appel.date_actuelle),
                               appel.date_actuelle)
    IN  RSum([i \in 1..Len(jours) |-> Get(appel.meteo_historique[jours[i]], "gdd_jour", Z(0))])

C26_Calcule ==
    /\ retour.fait
    /\ appel.fn = "gdd"
    /\ appel.stade_manuel # "repos"
    /\ retour.mode_calcul.nom # "Erreur"

\* C26: for a manual stage other than 'repos', the estimated stage of
\* _calculer_gdd is the stage of the highest threshold of GDD_STADE_MAP that is
\* <= the cumulative degree days ('repos' below 180), the next stage is that of
\* the lowest threshold strictly above them (none from 1800 on), and the next
\* threshold returned is strictly greater than the integer degree days returned.
C26_StadeSelonGdd ==
    C26_Calcule =>
        LET atteints == {g \in C26_Seuils : RLe(Z(g), C26_Somme)}
            suivants == {g \in C26_Seuils : RLt(C26_Somme, Z(g))}
        IN  /\ retour.gdd_actuel = Tronque(C26_Somme)
            /\ IF atteints = {} THEN retour.stade_estime = "repos"
               ELSE \E g \in atteints :
                       /\ \A h \in atteints : h <= g
                       /\ retour.stade_estime = C26_Stade(g)
            /\ IF suivants = {}
               THEN /\ RGe(C26_Somme, Z(1800))
                    /\ retour.prochain_stade_gdd = None
                    /\ retour.prochain_stade_nom = "None"
               ELSE \E g \in suivants :
                       /\ \A h \in suivants : g <= h
                       /\ retour.prochain_stade_gdd = Z(g)
                       /\ retour.prochain_stade_nom = C26_Stade(g)
                       /\ g > retour.gdd_actuel

\* 180 degree days exactly: 'debourrement', then 'pousse_10cm' at 300
C26_Temoin ==
    /\ C26_Calcule
    /\ C26_Somme = Z(180)
    /\ retour.gdd_actuel = 180
    /\ retour.stade_estime = "debourrement"
    /\ retour.prochain_stade_gdd = Z(300)
    /\ retour.prochain_stade_nom = "pousse_10cm"

\* 187.5 degree days: 187 returned
C26_TemoinFraction ==
    /\ C26_Calcule
    /\ C26_Somme = D1(1875)
    /\ retour.gdd_actuel = 187
    /\ retour.stade_estime = "debourrement"

\* 7.5 degree days: 'repos', then 'debourrement' at 180
C26_TemoinRepos ==
    /\ C26_Calcule
    /\ C26_Somme = D1(75)
    /\ retour.stade_estime = "repos"
    /\ retour.prochain_stade_gdd = Z(180)

\* 2000 degree days: 'repos' of the threshold 1800 and no next stage
C26_TemoinFinDeCycle ==
    /\ C26_Calcule
    /\ C26_Somme = Z(2000)
    /\ retour.stade_estime = "repos"
    /\ retour.prochain_stade_gdd = None


-----------------------------------------------------------------------------
(* The forecast of the next stage called on its own: the specification
   SpecPrevision. The store holds the days up to today and the forecast days
   that follow. *)

MaxJourPrevision == 10      \* last forecast date of the store, a day of March 2025

AujourdhuiPrevision == <<2025, 3, 2>>

\* a cold day (8 degrees), a mild day (12.5 degrees)
JoursPrevision == {JourGdd(Z(0), Z(8)), JourGdd(D1(25), D1(125))}

\* the record of 3 March: cold, mild, a null temp_moy, an empty record, or none
LendemainsPrevision ==
    {<<2025, 3, 3>> :> j : j \in JoursPrevision \cup {JourGdd(None, None), DictVide}}
        \cup {[d \in {} |-> DictVide]}

HistoriquesPrevision ==
    { (<<2025, 3, 1>> :> JourGdd(Z(5), Z(15))) @@ (<<2025, 3, 2>> :> JourGdd(Z(5), Z(15)))
          @@ lendemain @@ suite :
        lendemain \in LendemainsPrevision,
        suite \in UNION { [{<<2025, 3, j>> : j \in 4..k} -> JoursPrevision] :
                            k \in 3..MaxJourPrevision } }

InitPrevision ==
    /\ appel \in [fn : {"prevision"},
                  meteo_historique : HistoriquesPrevision,
                  date_actuelle : {AujourdhuiPrevision},
                  gdd_actuel : {170, 175, 180, 185},
                  prochain_stade : {<<Z(180), "debourrement">>, <<None, "None">>},
                  stade_manuel : {"repos", "floraison"}]
    /\ retour = Attente

\* _predire_stade_futur(meteo_historique, date_actuelle, gdd_actuel,
\* prochain_stade_gdd, prochain_stade_nom, stade_manuel)
AppelPrevision ==
    /\ appel.fn = "prevision"
    /\ retour = Attente
    /\ retour' = PredireStadeFutur(appel.meteo_historique, appel.date_actuelle,
                                   appel.gdd_actuel, appel.prochain_stade[1],
                                   appel.prochain_stade[2], appel.stade_manuel, T_BASE_GDD)
    /\ UNCHANGED appel

NextPrevision == AppelPrevision

SpecPrevision == InitPrevision /\ [][NextPrevision]_vars

\* the dates after today, earliest first, and the seven that are looked at
C27_Apres ==
    SortedDates({d \in DOMAIN appel.meteo_historique : DateLt(appel.date_actuelle, d)})

C27_Dates == IF Len(C27_Apres) <= 7 THEN C27_Apres ELSE SubSeq(C27_Apres, 1, 7)

\* max(0, temp_moy - base) of a date, a missing or null temp_moy counting for 0
C27_Apport(d) ==
    LET t == appel.meteo_historique[d]["temp_moy"]
    IN  IF t = Absent \/ t = None THEN Z(0)
        ELSE IF RGt(t, T_BASE_GDD) THEN RSub(t, T_BASE_GDD) ELSE Z(0)

\* the degree days accumulated over the first i of these dates
C27_Cumul(i) == RSum([j \in 1..i |-> C27_Apport(C27_Dates[j])])

C27_Ecart == appel.prochain_stade[1][1] - appel.gdd_actuel

C27_Atteint == {i \in 1..Len(C27_Dates) : RGe(C27_Cumul(i), Z(C27_Ecart))}

C27_Appele ==
    /\ retour.fait
    /\ appel.fn = "prevision"
    /\ appel.stade_manuel # "repos"
    /\ appel.prochain_stade[1] # None

\* C27: _predire_stade_futur looks at the seven earliest dates of the history
\* strictly after today, at all of them when they are fewer; it accumulates
\* max(0, temp_moy - base) over them in date order and reports n, the rank of
\* the day at which the sum first reaches the gap between the next threshold
\* and the current degree days; it reports 'not reached within 7 days' when
\* the sum does not reach the gap over these dates, and 'already reached'
\* when the gap is <= 0.
C27_Prevision ==
    C27_Appele =>
        IF C27_Ecart <= 0
        THEN retour = Alerte("Stade deja atteint.", appel.prochain_stade[2], 0)
        ELSE IF C27_Atteint = {}
        THEN retour = Alerte("Stade non atteint dans les 7 prochains jours.",
                             appel.prochain_stade[2], -1)
        ELSE /\ retour.texte = "Prevision : stade dans ~n jours."
             /\ retour.stade = appel.prochain_stade[2]
             /\ retour.jours \in C27_Atteint
             /\ \A i \in C27_Atteint : retour.jours <= i

\* a gap of 10 degree days closed on the fifth day, after a cold 3 March and
\* four mild days
C27_Temoin ==
    /\ C27_Appele
    /\ C27_Ecart = 10
    /\ Len(C27_Apres) >= 5
    /\ C27_Apport(<<2025, 3, 3>>) = Z(0)
    /\ C27_Cumul(4) = D1(75)
    /\ C27_Cumul(5) = Z(10)
    /\ retour = Alerte("Prevision : stade dans ~n jours.", "debourrement", 5)

\* eight forecast days of which the first seven bring 7.5 degree days and the
\* eighth would close the gap of 10: not reached
C27_TemoinHuitiemeJour ==
    /\ C27_Appele
    /\ C27_Ecart = 10
    /\ Len(C27_Apres) = 8
    /\ C27_Cumul(7) = D1(75)
    /\ appel.meteo_historique[C27_Apres[8]] = JourGdd(D1(25), D1(125))
    /\ retour.jours = -1

\* the next threshold is already passed: 185 degree days for 180
C27_TemoinDejaAtteint ==
    /\ C27_Appele
    /\ C27_Ecart = -5
    /\ Len(C27_Apres) >= 1
    /\ retour = Alerte("Stade deja atteint.", "debourrement", 0)

\* no date after today in the store
C27_TemoinSansPrevision ==
    /\ C27_Appele
    /\ C27_Ecart = 5
    /\ C27_Apres = <<>>
    /\ retour.jours = -1


-----------------------------------------------------------------------------
(* The analysis of a dormant parcel. *)

C30_EnRepos == AnalyseRendue /\ retour.stade = "repos"

\* C30: the analysis of a parcel whose manual stage is 'repos' has the mildew
\* score 0, the powdery mildew score 0 without a powdery mildew alert, a
\* decision score <= 0 and the urgency 'faible', whatever the weather store and
\* the treatment log hold; when the IPI is asked for, its tier is the one of
\* the dormant vine.
C30_AnalyseEnRepos ==
    C30_EnRepos =>
        /\ retour.risque_infection.score = Z(0)
        /\ retour.risque_oidium.score = Z(0)
        /\ retour.decision.alerte_oidium = ""
        /\ RLe(retour.decision.score, Z(0))
        /\ retour.decision.urgence = "faible"
        /\ appel.utiliser_ipi => retour.risque_infection.ipi_niveau = "NUL (Repos vegetatif)"

\* a dormant parcel after 12 mm of rain the day before and 6 mm on a warm and
\* very humid day, treated on 9 March: every score is 0 and the decision
\* score is negative
C30_Temoin ==
    /\ C30_EnRepos
    /\ appel.utiliser_ipi
    /\ {<<2025, 3, 9>>, <<2025, 3, 10>>} \subseteq DOMAIN appel.meteo_historique
    /\ appel.meteo_historique[<<2025, 3, 9>>] = JourStocke(Z(18), Z(24), Z(12), None, Z(2), Z(8))
    /\ appel.meteo_historique[<<2025, 3, 10>>] = JourStocke(Z(20), Z(26), Z(6), Z(95), Z(2), Z(10))
    /\ Len(appel.traitements) = 2
    /\ retour.risque_infection.score = Z(0)
    /\ retour.risque_infection.ipi_niveau = "NUL (Repos vegetatif)"
    /\ RGt(retour.protection_actuelle.score, Z(0))
    /\ RLt(retour.decision.score, Z(0))
    /\ retour.decision.urgence = "faible"

\* the same parcel without a treatment and without the IPI: the decision
\* score is 0
C30_TemoinSansTraitement ==
    /\ C30_EnRepos
    /\ ~appel.utiliser_ipi
    /\ appel.traitements = <<>>
    /\ <<2025, 3, 10>> \in DOMAIN appel.meteo_historique
    /\ appel.meteo_historique[<<2025, 3, 10>>] = JourStocke(Z(20), Z(26), Z(6), Z(95), Z(2), Z(10))
    /\ retour.decision.score = Z(0)
    /\ retour.risque_infection.ipi_niveau = "N/A"


-----------------------------------------------------------------------------
(* The campaigns over several analyses: the specification SpecCampagnes. The
   parcels are analysed again and again, with and without the IPI, on the last
   day of 2025 and on the first day of 2026. *)

MaxAnalyses == 3            \* longest historique_analyses

DernierJourCampagnes == <<2026, 1, 1>>

MeteoCampagnes ==
    (<<2025, 12, 30>> :> JourStocke(Z(16), Z(22), Z(6), Z(85), Z(2), Z(6)))
    @@ (<<2025, 12, 31>> :> JourStocke(Z(20), Z(26), Z(6), Z(95), Z(2), Z(10)))
    @@ (<<2026, 1, 1>> :> JourStocke(Z(12), Z(22), Z(2), Z(70), Z(1), Z(2)))

InitCampagnes ==
    /\ appel \in [fn : {"campagnes"},
                  parcelles : ConfigsAnalyse,
                  meteo_historique : {MeteoCampagnes},
                  traitements : {<<>>},
                  utiliser_ipi : {FALSE},
                  aujourdhui : {<<2025, 12, 31>>},
                  historique_analyses : {<<>>},
                  campagnes : {<<>>}]
    /\ retour = Attente

\* analyser_parcelle(nom_parcelle, utiliser_ipi), one call after another
AnalyserEncore ==
    /\ appel.fn = "campagnes"
    /\ Len(appel.historique_analyses) < MaxAnalyses
    /\ \E nom_parcelle \in {"P1", "P2", "P3"}, utiliser_ipi \in BOOLEAN :
          LET analyse == AnalyserParcelle(appel.parcelles, appel.meteo_historique,
                                          appel.traitements, nom_parcelle,
                                          utiliser_ipi, appel.aujourdhui,
                                          RFU_MAX_MM, T_BASE_GDD)
          IN  /\ retour' = analyse
              /\ appel' = IF analyse.leve \/ "erreur" \in DOMAIN analyse
                          THEN [appel EXCEPT !.utiliser_ipi = utiliser_ipi]
                          ELSE [appel EXCEPT
                                   !.utiliser_ipi = utiliser_ipi,
                                   !.historique_analyses =
                                       Append(@, AnalyseJournal(analyse)),
                                   !.campagnes = AjouterAnalyse(@, analyse)]

\* midnight: datetime.now() is the next day
Minuit ==
    /\ appel.fn = "campagnes"
    /\ DateLt(appel.aujourdhui, DernierJourCampagnes)
    /\ appel' = [appel EXCEPT !.aujourdhui = Lendemain(@)]
    /\ retour' = Attente

NextCampagnes == AnalyserEncore \/ Minuit

SpecCampagnes == InitCampagnes /\ [][NextCampagnes]_vars

\* no two campaigns of the same year
C28_UneCampagneParAnnee ==
    \A i, j \in 1..Len(appel.campagnes) :
        i # j => appel.campagnes[i].annee # appel.campagnes[j].annee

\* no two records of a campaign with the same date and parcel
C28_UneAnalyseParJour ==
    \A k \in 1..Len(appel.campagnes) :
        LET analyses == appel.campagnes[k].analyses
        IN  \A i, j \in 1..Len(analyses) :
                i # j => \/ analyses[i].date # analyses[j].date
                         \/ analyses[i].parcelle # analyses[j].parcelle

\* the records of analyses, with nouvelle in the place of the record of its date
\* and parcel, or after them all when there is none
C28_Remplace(analyses, apres, nouvelle) ==
    LET memes == {i \in 1..Len(analyses) :
                     /\ analyses[i].date = nouvelle.date
                     /\ analyses[i].parcelle = nouvelle.parcelle}
    IN  IF memes = {}
        THEN apres = analyses \o <<nouvelle>>
        ELSE /\ Len(apres) = Len(analyses)
             /\ \A i \in 1..Len(analyses) :
                   apres[i] = IF i \in memes THEN nouvelle ELSE analyses[i]

\* what one step does to the campaigns
C28_Pas ==
    IF retour'.fait /\ ~retour'.leve /\ "erreur" \notin DOMAIN retour'
    THEN LET nouvelle == AnalyseSimplifiee(retour')
             annee == retour'.date_analyse[1]
             avant == appel.campagnes
             apres == appel'.campagnes
             k == {i \in 1..Len(avant) : avant[i].annee = annee}
         IN  IF k = {}
             THEN apres = avant \o <<[annee |-> annee, analyses |-> <<nouvelle>>]>>
             ELSE /\ Len(apres) = Len(avant)
                  /\ \A i \in 1..Len(avant) :
                        IF i \in k
                        THEN /\ apres[i].annee = annee
                             /\ C28_Remplace(avant[i].analyses, apres[i].analyses, nouvelle)
                        ELSE apres[i] = avant[i]
    ELSE appel'.campagnes = appel.campagnes

\* C28: after any sequence of analyser_parcelle calls the history of
\* GestionHistoriqueAlertes holds at most one campaign per year and, in a
\* campaign, at most one record per date and parcel: the analysis of a parcel
\* analysed before on the same date takes the place of the earlier record, and
\* the records of the other parcels and dates stay as they were.
C28_Campagnes ==
    /\ [](C28_UneCampagneParAnnee /\ C28_UneAnalyseParJour)
    /\ [][C28_Pas]_vars

\* P1 analysed twice on 31 December, without and with the IPI, and once on
\* 1 January: one record with the IPI in the campaign 2025, one in 2026
C28_Temoin ==
    /\ appel.fn = "campagnes"
    /\ Len(appel.historique_analyses) = 3
    /\ appel.historique_analyses[1].parcelle = "P1"
    /\ appel.historique_analyses[2].parcelle = "P1"
    /\ appel.historique_analyses[1].date = <<2025, 12, 31>>
    /\ appel.historique_analyses[2].date = <<2025, 12, 31>>
    /\ Len(appel.campagnes) = 2
    /\ appel.campagnes[1].annee = 2025
    /\ Len(appel.campagnes[1].analyses) = 1
    /\ appel.campagnes[1].analyses[1].risque_mildiou.ipi # None
    /\ appel.campagnes[2].annee = 2026
    /\ Len(appel.campagnes[2].analyses) = 1
    /\ appel.campagnes[2].analyses[1].date = <<2026, 1, 1>>

\* P1, P2, then P1 again on the same day: the record of P1 is replaced where
\* it was, before that of P2
C28_TemoinEnPlace ==
    /\ appel.fn = "campagnes"
    /\ Len(appel.historique_analyses) = 3
    /\ appel.utiliser_ipi
    /\ Len(appel.campagnes) = 1
    /\ Len(appel.campagnes[1].analyses) = 2
    /\ appel.campagnes[1].analyses[1].parcelle = "P1"
    /\ appel.campagnes[1].analyses[1].risque_mildiou.ipi # None
    /\ appel.campagnes[1].analyses[2].parcelle = "P2"
    /\ appel.campagnes[1].analyses[2].risque_mildiou.ipi = None

=============================================================================
